---- MODULE Spec2Model ----
(***************************************************************************)
(* Workflow-graph core of the cyntra agents package: the in-memory         *)
(* repositories, the timeline / mission / memory tool sets and the         *)
(* planner, coach and archivist graphs that run on top of them.            *)
(*                                                                         *)
(* Conventions of the model                                                *)
(*   - ids are the values returned by new_id(): the n-th id that is stored *)
(*     is n, so an id is fresh when it is drawn; the id of an object that  *)
(*     is never stored (a placeholder, a proposal) is drawn above nextId   *)
(*     and dies with the response.  EmptyId is the empty string.           *)
(*   - None is Python's None for integer-valued optional fields; an        *)
(*     optional record is a sequence of length 0 (None) or 1.              *)
(*   - a datetime is an integer instant; a date is an integer day number   *)
(*     and its weekday() is the day number modulo 7.                       *)
(*   - a Python dict keeps insertion order; ids grow with insertion, so    *)
(*     dict.values() is the records in ascending id order.                 *)
(***************************************************************************)
EXTENDS Integers, Sequences, FiniteSets, TLC

\* ------------------------------------------------------------------ bounds
MaxId == 2          \* number of new_id() calls in a behaviour
MaxClock == 3       \* number of now_utc() calls that stamp a stored entity

\* --------------------------------------------------------------- constants
None == -1
EmptyId == 0
Users == {"u1", "u2"}
Tasks == {"t1", "t2"}

PLANNED == "planned"
IN_PROGRESS == "in_progress"
COMPLETED == "completed"
CANCELLED == "cancelled"
SKIPPED == "skipped"
BlockStatus == {PLANNED, IN_PROGRESS, COMPLETED, CANCELLED, SKIPPED}

M_DRAFT == "draft"
M_ACTIVE == "active"
M_PAUSED == "paused"
M_COMPLETED == "completed"
M_ABANDONED == "abandoned"
MissionStatus == {M_DRAFT, M_ACTIVE, M_PAUSED, M_COMPLETED, M_ABANDONED}

ReflectPeriodKind == {"block", "day", "week", "mission"}
EpisodeKind == {"session", "day", "mission", "meta"}

DefaultDuration == 25
NumBlocks == 5
StretchThreshold == 40
Week == 7
EpisodeLimit == 50
Inf == 1000000   \* float("inf") as a number of hours

VARIABLES
    missions,    \* InMemoryMissionsRepository._missions : id -> Mission
    blocks,      \* InMemoryBlocksRepository._blocks     : id -> Block
    episodes,    \* InMemoryEpisodesRepository._episodes : id -> Episode
    profiles,    \* InMemoryUserProfileRepository._profiles : user_id -> UserProfile
    nextId,      \* the value the next new_id() returns
    now,         \* the value the next now_utc() returns
    today,       \* date.today()
    run,         \* the graph run in flight: graph, node to run next, user
    req,         \* outputs["request"] of the run in flight
    out,         \* the other outputs, context and errors of the run's state
    resp,        \* the response (or exception) the run returned
    pre,         \* the repositories as they were when the run started
    tasks,       \* timeline tool calls in flight, between get and update
    sessions,    \* GlyphAgentService._sessions : session_id -> GlyphPersona
    chats,       \* chat calls in flight: the locals of each call
    semantic     \* RepositoryBundle.semantic_memory: None, or the missions
                 \* InMemorySemanticMemory._missions has indexed

vars == <<missions, blocks, episodes, profiles, nextId, now, today,
          run, req, out, resp, pre, tasks, sessions, chats, semantic>>

repos == <<missions, blocks, episodes, profiles>>

\* ----------------------------------------------------------------- helpers
Min(S) == CHOOSE x \in S : \A y \in S : x <= y

RECURSIVE AscSeq(_)
\* the elements of a finite set of integers in ascending order
AscSeq(S) == IF S = {} THEN <<>> ELSE <<Min(S)>> \o AscSeq(S \ {Min(S)})

\* dict.values(): the stored records in insertion order
Values(repo) ==
    LET ids == AscSeq(DOMAIN repo) IN [i \in 1..Len(ids) |-> repo[ids[i]]]

\* list.sort(key=...): stable, ascending for the strict order Less on elements
SortBy(s, Less(_, _)) ==
    LET xs == s
        n == Len(xs)
        Before(i, j) == Less(xs[i], xs[j]) \/ (~Less(xs[j], xs[i]) /\ i < j)
        Rank(i) == Cardinality({j \in 1..n : Before(j, i)}) + 1
    IN IF n <= 1 THEN xs ELSE [k \in 1..n |-> xs[CHOOSE i \in 1..n : Rank(i) = k]]

\* min(s, key=Key): the first element of s whose key is least (s is not empty)
FirstMin(s, Key(_)) ==
    LET xs == s
    IN xs[CHOOSE i \in 1..Len(xs) :
            \A j \in 1..Len(xs) : /\ Key(xs[i]) <= Key(xs[j])
                                  /\ (j < i => Key(xs[j]) > Key(xs[i]))]

\* max(s, key=Key): the first element of s whose key is greatest (s is not empty)
FirstMax(s, Key(_)) ==
    LET xs == s
    IN xs[CHOOSE i \in 1..Len(xs) :
            \A j \in 1..Len(xs) : /\ Key(xs[i]) >= Key(xs[j])
                                  /\ (j < i => Key(xs[j]) < Key(xs[i]))]

\* Python's "x or d" on an optional integer: None and 0 are both falsy
OrInt(x, d) == IF x = None \/ x = 0 THEN d ELSE x
\* Python's "x or d" on an optional datetime: only None is falsy
OrDatetime(x, d) == IF x = None THEN d ELSE x
\* Python's "if x:" on an optional id string: None and "" are both falsy
IsGiven(id) == id # None /\ id # EmptyId

\* an optional record: None is <<>>, a value v is <<v>>
Some(v) == <<v>>
Nothing == <<>>
IsSome(o) == o # <<>>
Get(repo, id) == IF id \in DOMAIN repo THEN Some(repo[id]) ELSE Nothing
Put(repo, rec) == [i \in DOMAIN repo \cup {rec.id} |-> IF i = rec.id THEN rec ELSE repo[i]]

DatetimeMax == 1000000   \* datetime.max as a sort key
DatetimeMin == -1000000  \* datetime.min as a sort key

UnknownId == MaxId + 100  \* an id no repository holds

\* a datetime is the hour it falls in, counted from the day numbered 0
HoursPerDay == 24
NineOClock == 9    \* time(9, 0)
BlockLimit == 100  \* the default limit of list_for_mission
combine(day, hour) == day * HoursPerDay + hour
date(dt) == dt \div HoursPerDay

\* ------------------------------------------------- schemas (the fields read)
\* Block(...): the fields the graphs and tools read; the rest keep their defaults
Block(id, user_id, mission_id, sequence_index, scheduled_start, duration) ==
    [id |-> id, user_id |-> user_id, mission_id |-> mission_id,
     sequence_index |-> sequence_index, scheduled_start |-> scheduled_start,
     planned_duration_minutes |-> duration, actual_start |-> None,
     status |-> PLANNED]

\* Mission(...): status defaults to active; constraints.days_off is a set of
\* weekdays; preferences.preferred_block_lengths is a list, None being <<>>
\* (the code only tests its truthiness before taking element 0)
Mission(id, user_id, status, t, minutes, days_off, lengths) ==
    [id |-> id, user_id |-> user_id, status |-> status,
     created_at |-> t, updated_at |-> t, estimated_total_minutes |-> minutes,
     days_off |-> days_off, preferred_block_lengths |-> lengths]

\* ------------------------------------------- InMemoryMissionsRepository
\* each operator takes the repository dict it reads as its first argument
\* get_active_mission with min in place of max: the least recently updated
\* active mission
get_active_mission_oldest(ms, user_id) ==
    LET active == SelectSeq(Values(ms),
                     LAMBDA m : m.user_id = user_id /\ m.status = M_ACTIVE)
    IN IF active = <<>> THEN Nothing
       ELSE Some(FirstMin(active, LAMBDA m : m.updated_at))

\* get_active_mission that returns the first active mission stored
get_active_mission_first(ms, user_id) ==
    LET active == SelectSeq(Values(ms),
                     LAMBDA m : m.user_id = user_id /\ m.status = M_ACTIVE)
    IN IF active = <<>> THEN Nothing ELSE Some(active[1])

get_active_mission(ms, user_id) ==
    LET active == SelectSeq(Values(ms),
                     LAMBDA m : m.user_id = user_id /\ m.status = M_ACTIVE)
    IN IF active = <<>> THEN Nothing
       ELSE Some(FirstMax(active, LAMBDA m : m.updated_at))

\* ------------------------------------------------- InMemorySemanticMemory
\* The bundle's semantic_memory is None (present FALSE) or an
\* InMemorySemanticMemory, of which the model keeps _missions: id -> the
\* Mission object that was indexed, with the words of its title and
\* description beside it (Mission keeps only the fields read elsewhere).
\* A text is the set of its lower-cased words.
NoSemantic == [present |-> FALSE, missions |-> <<>>]
EmptySemantic == [present |-> TRUE, missions |-> <<>>]

\* add_mission(mission)
add_mission(sem, mission, words) ==
    [sem EXCEPT !.missions = Put(@, [id |-> mission.id, mission |-> mission,
                                     words |-> words])]

\* search_similar_missions with the limit ignored: every match is returned
search_similar_missions_unlimited(sem, user_id, query, limit) ==
    LET user_missions == SelectSeq(Values(sem.missions),
                             LAMBDA e : e.mission.user_id = user_id)
        scored == SelectSeq(user_missions,
                      LAMBDA e : Cardinality(query \cap e.words) > 0)
        sorted == SortBy(scored, LAMBDA a, b : Cardinality(query \cap a.words)
                                                 > Cardinality(query \cap b.words))
    IN [i \in 1..Len(sorted) |-> sorted[i].mission]

\* search_similar_missions(user_id, query, limit=limit): the user's indexed
\* missions that share a word with the query, most shared words first
search_similar_missions(sem, user_id, query, limit) ==
    LET user_missions == SelectSeq(Values(sem.missions),
                             LAMBDA e : e.mission.user_id = user_id)
        scored == SelectSeq(user_missions,
                      LAMBDA e : Cardinality(query \cap e.words) > 0)
        sorted == SortBy(scored, LAMBDA a, b : Cardinality(query \cap a.words)
                                                 > Cardinality(query \cap b.words))
        top == SubSeq(sorted, 1, IF Len(sorted) < limit THEN Len(sorted) ELSE limit)
    IN [i \in 1..Len(top) |-> top[i].mission]

\* --------------------------------------------- InMemoryBlocksRepository
BlockKeyLess(a, b) ==
    \/ OrInt(a.sequence_index, 0) < OrInt(b.sequence_index, 0)
    \/ /\ OrInt(a.sequence_index, 0) = OrInt(b.sequence_index, 0)
       /\ OrDatetime(a.scheduled_start, DatetimeMax)
            < OrDatetime(b.scheduled_start, DatetimeMax)

\* status is a BlockStatus or "any" for None
list_for_mission(bs, mission_id, status) ==
    LET sorted == SortBy(SelectSeq(Values(bs),
                             LAMBDA b : b.mission_id = mission_id
                                        /\ (status = "any" \/ b.status = status)),
                         BlockKeyLess)
    IN SubSeq(sorted, 1, IF Len(sorted) < BlockLimit THEN Len(sorted) ELSE BlockLimit)

list_for_user_date(bs, user_id, target_date) ==
    SortBy(SelectSeq(Values(bs),
               LAMBDA b : /\ b.user_id = user_id
                          /\ b.scheduled_start # None
                          /\ date(b.scheduled_start) = target_date),
           LAMBDA a, b : OrDatetime(a.scheduled_start, DatetimeMax)
                           < OrDatetime(b.scheduled_start, DatetimeMax))

get_current_block(bs, user_id) ==
    LET in_progress == SelectSeq(Values(bs),
                          LAMBDA b : b.user_id = user_id /\ b.status = IN_PROGRESS)
    IN IF in_progress = <<>> THEN Nothing
       ELSE Some(FirstMax(in_progress,
                    LAMBDA b : OrDatetime(b.actual_start, DatetimeMin)))

\* ------------------------------------------- InMemoryEpisodesRepository
\* Episode(...): created_day is created_at.date()
Episode(id, user_id, kind, t, day, focus_score, focused, leaked, tags) ==
    [id |-> id, user_id |-> user_id, kind |-> kind, created_at |-> t,
     created_day |-> day, focus_score |-> focus_score,
     time_focused_minutes |-> focused, time_leaked_minutes |-> leaked,
     tags |-> tags]

\* list_for_user(user_id, start_date=..., end_date=...): newest first
list_for_user(eps, user_id, start_date, end_date) ==
    LET mine == SelectSeq(Values(eps),
                   LAMBDA e : /\ e.user_id = user_id
                              /\ (start_date # None => e.created_day >= start_date)
                              /\ (end_date # None => e.created_day <= end_date))
        sorted == SortBy(mine, LAMBDA a, b : a.created_at > b.created_at)
    IN SubSeq(sorted, 1, IF Len(sorted) < EpisodeLimit THEN Len(sorted) ELSE EpisodeLimit)

\* --------------------------------------- InMemoryUserProfileRepository
\* UserPreferences(): the defaults
UserPreferences ==
    [timezone |-> "UTC", preferred_block_lengths |-> <<25, 40>>,
     typical_wake_hour |-> None, typical_sleep_hour |-> None,
     nudge_level |-> "normal", sideglyph_enabled |-> TRUE,
     browser_tracking_enabled |-> TRUE]

\* UserProfile(user_id, created_at=t, updated_at=t) with default preferences
\* and stats; the fields of stats are kept beside the others, the two rates
\* in percent
UserProfile(user_id, t) ==
    [user_id |-> user_id, created_at |-> t, updated_at |-> t,
     display_name |-> Nothing, preferences |-> UserPreferences,
     persona_notes |-> Nothing,
     total_missions_created |-> 0, total_blocks_completed |-> 0,
     total_focused_minutes |-> 0,
     avg_block_length_successful |-> None, avg_start_hour_successful |-> None,
     night_sessions_failure_rate |-> None, morning_sessions_success_rate |-> None]

\* get_or_create that stores a fresh profile whether or not one exists
get_or_create_fresh(ps, user_id, t) ==
    [u \in DOMAIN ps \cup {user_id} |->
        IF u = user_id THEN UserProfile(user_id, t) ELSE ps[u]]

\* the repository after get_or_create(user_id) at datetime.now() = t
get_or_create(ps, user_id, t) ==
    IF user_id \in DOMAIN ps THEN ps
    ELSE [u \in DOMAIN ps \cup {user_id} |->
            IF u = user_id THEN UserProfile(user_id, t) ELSE ps[u]]

\* ------------------------------------------------------------- MemoryTools
RECURSIVE SumSeq(_)
SumSeq(s) == IF s = <<>> THEN 0 ELSE s[1] + SumSeq(Tail(s))

\* "if x:" on an optional integer
Truthy(x) == x # None /\ x # 0

\* compute_period_stats: the averages are kept as <<sum, count>>
compute_period_stats(eps, user_id, start_date, end_date) ==
    LET es == list_for_user(eps, user_id, start_date, end_date)
        scores == SelectSeq(es, LAMBDA e : Truthy(e.focus_score))
    IN [total_focused_minutes |->
            SumSeq([i \in DOMAIN es |-> IF Truthy(es[i].time_focused_minutes)
                                        THEN es[i].time_focused_minutes ELSE 0]),
        total_leaked_minutes |->
            SumSeq([i \in DOMAIN es |-> IF Truthy(es[i].time_leaked_minutes)
                                        THEN es[i].time_leaked_minutes ELSE 0]),
        blocks_completed |-> Len(SelectSeq(es, LAMBDA e : e.kind = "session")),
        avg_focus_score |-> <<SumSeq([i \in DOMAIN scores |-> scores[i].focus_score]),
                              Len(scores)>>]

\* the profile update_user_stats stores
update_user_stats(profile, blocks_completed_delta, focused_minutes_delta, missions_created_delta, t) ==
    [profile EXCEPT
        !.total_missions_created = @ + missions_created_delta,
        !.total_blocks_completed = @ + blocks_completed_delta,
        !.total_focused_minutes = @ + focused_minutes_delta,
        !.updated_at = t]

\* ----------------------------------------------------------- TimelineTools
get_today_blocks(bs, user_id) == list_for_user_date(bs, user_id, today)

\* a variant that, with no mission, falls back to the user's planned blocks
\* of any day instead of today's
next_planned_block_any_day(bs, user_id, mission_id) ==
    LET blks == IF IsGiven(mission_id)
                THEN list_for_mission(bs, mission_id, PLANNED)
                ELSE SelectSeq(Values(bs),
                         LAMBDA b : b.user_id = user_id /\ b.status = PLANNED)
    IN IF blks = <<>> THEN Nothing ELSE Some(blks[1])

get_next_planned_block(bs, user_id, mission_id) ==
    LET blks == IF IsGiven(mission_id)
                THEN list_for_mission(bs, mission_id, PLANNED)
                ELSE SelectSeq(get_today_blocks(bs, user_id),
                               LAMBDA b : b.status = PLANNED)
        blocks_with_schedule == SelectSeq(blks, LAMBDA b : b.scheduled_start # None)
    IN IF blks = <<>> THEN Nothing
       ELSE IF blocks_with_schedule # <<>>
            THEN Some(FirstMin(blocks_with_schedule,
                        LAMBDA b : OrDatetime(b.scheduled_start, DatetimeMax)))
            ELSE Some(blks[1])

\* the offsets i in range(num_blocks) whose day start + i is not a day off
kept_days(start, num_blocks, days_off) ==
    SelectSeq([i \in 1..num_blocks |-> i - 1],
              LAMBDA i : ~(days_off # {} /\ ((start + i) % Week) \in days_off))

\* unsaved blocks, one per kept day; their ids are drawn from first_id on
propose_blocks_for_mission(ms, mission_id, first_id, num_blocks) ==
    IF mission_id \notin DOMAIN ms THEN <<>>
    ELSE LET mission == ms[mission_id]
             duration == IF mission.preferred_block_lengths # <<>>
                         THEN mission.preferred_block_lengths[1]
                         ELSE DefaultDuration
             kept == kept_days(today, num_blocks, mission.days_off)
         IN [k \in 1..Len(kept) |->
               Block(first_id + k - 1, mission.user_id, mission_id, k - 1,
                     combine(today + kept[k], NineOClock), duration)]

\* the block create_block builds, given the id new_id() returned
create_block(bs, id, user_id, mission_id, scheduled_start, duration) ==
    Block(id, user_id, mission_id, Len(list_for_mission(bs, mission_id, "any")),
          scheduled_start, duration)

\* the copies the session-management tools hand to update()
start_block_copy(b, t) == [b EXCEPT !.status = IN_PROGRESS, !.actual_start = t]
complete_block_copy(b) == [b EXCEPT !.status = COMPLETED]
cancel_block_copy(b) == [b EXCEPT !.status = CANCELLED]
skip_block_copy(b) == [b EXCEPT !.status = SKIPPED]

\* the copy a timeline tool writes back
timeline_copy(tool, b, t) ==
    CASE tool = "start_block" -> start_block_copy(b, t)
      [] tool = "complete_block" -> complete_block_copy(b)
      [] tool = "cancel_block" -> cancel_block_copy(b)
      [] tool = "skip_block" -> skip_block_copy(b)

\* ------------------------------------------------------------- MissionTools
\* the mission create_mission builds, given new_id() and now_utc()
create_mission(id, user_id, t, minutes, days_off, lengths) ==
    Mission(id, user_id, M_ACTIVE, t, minutes, days_off, lengths)

\* "if self._semantic: await self._semantic.add_mission(mission)"
index_mission(sem, mission, words) ==
    IF sem.present THEN add_mission(sem, mission, words) ELSE sem

\* find_similar_missions(user_id, query, limit)
find_similar_missions(sem, user_id, query, limit) ==
    IF sem.present THEN search_similar_missions(sem, user_id, query, limit) ELSE <<>>

\* update_mission(mission_id, status=...): complete_mission, pause_mission,
\* resume_mission and abandon_mission
update_mission(m, status, t) == [m EXCEPT !.status = status, !.updated_at = t]

\* ------------------------------------------------------------ graph runs
\* A graph run threads one state through its nodes.  A node is an operator
\* from world to world; the world is the node's state dict (out) together
\* with what the node can reach through the tools: the repositories, new_id()
\* and now_utc().
Idle == [graph |-> "none", pc |-> "idle", user_id |-> "none"]
NoResp == [kind |-> "none"]
RunIdle == run.pc = "idle"

World(o) == [missions |-> missions, blocks |-> blocks, episodes |-> episodes,
             profiles |-> profiles, nextId |-> nextId, now |-> now, out |-> o,
             raised |-> "none", semantic |-> semantic]

\* a node runs unless an earlier node raised: the exception ends the run
Node(w, after) == IF w.raised # "none" THEN w ELSE after

Snapshot == [missions |-> missions, blocks |-> blocks,
             episodes |-> episodes, profiles |-> profiles]

\* what a run leaves behind once its caller has the response
Finish ==
    /\ run.pc \in {"done", "raised"}
    /\ run' = Idle /\ req' = <<>> /\ out' = <<>> /\ resp' = NoResp /\ pre' = <<>>
    /\ UNCHANGED <<missions, blocks, episodes, profiles, nextId, now, today, tasks,
                   sessions, chats, semantic>>

\* --------------------------------------------------------------- CoachGraph
AvailableMinutes == {None, 0, 45}

\* run_coach: the initial state handed to the graph
coach_initial_state ==
    [mission |-> Nothing, current_block |-> Nothing, today_blocks |-> <<>>,
     selected_block |-> Nothing, is_continuation |-> FALSE, brief |-> "none",
     actions |-> <<>>, recommended_duration |-> None, errors |-> <<>>]

load_context(w, user_id, rq) ==
    LET mission == IF IsGiven(rq.mission_id) THEN Get(w.missions, rq.mission_id)
                   ELSE get_active_mission(w.missions, user_id)
        block == IF IsGiven(rq.block_id) THEN Get(w.blocks, rq.block_id)
                 ELSE get_current_block(w.blocks, user_id)
    IN [w EXCEPT !.out.mission = mission, !.out.current_block = block,
                 !.out.today_blocks = get_today_blocks(w.blocks, user_id)]

\* "available_minutes or 25"
new_block_duration(available_minutes) == OrInt(available_minutes, DefaultDuration)

\* the block decide_block selects without creating one: <<block, is_continuation>>,
\* or <<>> when it falls through to creation
decide_existing(current_block, requested, next_block) ==
    IF IsSome(current_block) /\ current_block[1].status = IN_PROGRESS
    THEN <<current_block[1], TRUE>>
    ELSE IF IsSome(requested) THEN <<requested[1], FALSE>>
    ELSE IF IsSome(next_block) THEN <<next_block[1], FALSE>>
    ELSE <<>>

decide_block(w, user_id, rq) ==
    LET mission_id == IF IsSome(w.out.mission) THEN w.out.mission[1].id ELSE None
        requested == IF IsGiven(rq.block_id) THEN Get(w.blocks, rq.block_id)
                     ELSE Nothing
        picked == decide_existing(w.out.current_block, requested,
                      get_next_planned_block(w.blocks, user_id, mission_id))
        new_block == create_block(w.blocks, w.nextId, user_id, mission_id, None,
                         new_block_duration(rq.available_minutes))
    IN IF picked # <<>>
       THEN [w EXCEPT !.out.selected_block = Some(picked[1]),
                      !.out.is_continuation = picked[2]]
       ELSE IF IsGiven(mission_id)
       THEN [w EXCEPT !.blocks = Put(@, new_block),
                      !.nextId = @ + 1,
                      !.out.selected_block = Some(new_block),
                      !.out.is_continuation = FALSE]
       ELSE [w EXCEPT !.out.errors = Append(@, "No mission or block available")]

\* the action list of a selected block: the primary action, and the stretch
\* goal when there is time
session_actions(duration) ==
    <<[estimated_minutes |-> duration, is_stretch_goal |-> FALSE]>>
    \o (IF duration >= StretchThreshold
        THEN <<[estimated_minutes |-> 5, is_stretch_goal |-> TRUE]>>
        ELSE <<>>)

generate_brief(w) ==
    IF ~IsSome(w.out.selected_block)
    THEN [w EXCEPT !.out.brief = "what would you like to work on",
                   !.out.actions = <<>>]
    ELSE LET duration == w.out.selected_block[1].planned_duration_minutes
         IN [w EXCEPT
                !.out.brief = IF w.out.is_continuation THEN "continuing" ELSE "block",
                !.out.actions = session_actions(duration),
                !.out.recommended_duration = duration]

\* start_session that starts the selected block whatever its status
needs_start_always(block_data) == TRUE

\* whether start_session calls start_block for the selected block
needs_start(block_data) == block_data.status # IN_PROGRESS

start_session(w) ==
    IF ~IsSome(w.out.selected_block) THEN w
    ELSE LET block_data == w.out.selected_block[1]
             found == Get(w.blocks, block_data.id)
         IN IF needs_start(block_data) /\ IsSome(found)
            THEN LET started == start_block_copy(found[1], w.now)
                 IN [w EXCEPT !.blocks = Put(@, started),
                              !.now = @ + 1,
                              !.out.selected_block = Some(started)]
            ELSE w

\* outputs.get("recommended_duration") with no default
recommended_unset(duration) == duration

\* outputs.get("recommended_duration", 25)
recommended(duration) == IF duration = None THEN DefaultDuration ELSE duration

\* run_coach: the response built from the final state
coach_response(w, user_id) ==
    LET placeholder == Block(w.nextId, user_id, EmptyId, None, None, None)
    IN [kind |-> "session",
        block |-> IF IsSome(w.out.selected_block)
                  THEN w.out.selected_block[1] ELSE placeholder,
        actions |-> w.out.actions,
        brief |-> w.out.brief,
        recommended_duration_minutes |-> recommended(w.out.recommended_duration),
        warnings |-> w.out.errors]

\* the four nodes in the order build() wires them
coach_graph(w, user_id, rq) ==
    LET w1 == load_context(w, user_id, rq)
        w2 == decide_block(w1, user_id, rq)
        w3 == generate_brief(w2)
    IN start_session(w3)

\* run_coach(repos, user_id, request)
CoachRun(user_id, mission_id, block_id, available_minutes) ==
    /\ RunIdle
    /\ LET rq == [mission_id |-> mission_id, block_id |-> block_id,
                  available_minutes |-> available_minutes]
           w == coach_graph(World(coach_initial_state), user_id, rq)
       IN /\ w.nextId <= MaxId + 1 /\ w.now <= MaxClock
          /\ blocks' = w.blocks /\ nextId' = w.nextId /\ now' = w.now
          /\ req' = rq /\ out' = w.out
          /\ resp' = coach_response(w, user_id)
    /\ run' = [graph |-> "coach", pc |-> "done", user_id |-> user_id]
    /\ pre' = Snapshot
    /\ UNCHANGED <<missions, episodes, profiles, today, tasks, sessions, chats, semantic>>

\* ------------------------------------------------------------- PlannerGraph
\* raw_input is kept as the set of its words; the title (its first 100
\* characters) and the description (all of it) hold the same words

\* the requests the planner is run on: default, weekend off with hours and
\* 50-minute blocks, a zero preferred length, every day off, one day off,
\* infinite hours
PlanRequests ==
    { [raw_input |-> {"alpha"}, estimated_hours |-> None, days_off |-> {}, preferred_block_lengths |-> <<>>],
      [raw_input |-> {"alpha"}, estimated_hours |-> 2, days_off |-> {5, 6}, preferred_block_lengths |-> <<50, 25>>],
      [raw_input |-> {"alpha"}, estimated_hours |-> None, days_off |-> {}, preferred_block_lengths |-> <<0>>],
      [raw_input |-> {"alpha"}, estimated_hours |-> None, days_off |-> 0..6, preferred_block_lengths |-> <<>>],
      [raw_input |-> {"alpha"}, estimated_hours |-> None, days_off |-> {2}, preferred_block_lengths |-> <<>>],
      [raw_input |-> {"alpha"}, estimated_hours |-> Inf, days_off |-> {}, preferred_block_lengths |-> <<>>] }

planner_initial_state ==
    [parsed_input |-> <<>>, similar_missions |-> <<>>, history_note |-> Nothing,
     similar_missions_note |-> Nothing,
     mission |-> Nothing, proposed_blocks |-> <<>>, summary_sessions |-> None,
     errors |-> <<>>]

parse_input(w, rq) == [w EXCEPT !.out.parsed_input = rq]

\* the limit _check_history passes to find_similar_missions
HistoryLimit == 3

\* the note is kept as the number of completed missions it reports
check_history(w, user_id) ==
    LET parsed == w.out.parsed_input
        \* f"{title} {description}": the words of both
        query == parsed.raw_input \cup parsed.raw_input
        similar == find_similar_missions(w.semantic, user_id, query, HistoryLimit)
        completed == SelectSeq(similar, LAMBDA m : m.status = M_COMPLETED)
    IN Node(w, [w EXCEPT !.out.similar_missions = similar,
                         !.out.history_note =
                             IF similar # <<>> /\ completed # <<>>
                             THEN Some(Len(completed)) ELSE Nothing])

\* int(estimated_hours * 60) when estimated_hours is truthy: the minutes as
\* an optional, or <<>> when int() raises OverflowError
estimated_minutes(hours) ==
    IF hours = None \/ hours = 0 THEN Some(None)
    ELSE IF hours = Inf THEN Nothing
    ELSE Some(hours * 60)

\* build_mission handing on a mission that create_mission did not store
build_mission_unsaved(w, user_id) ==
    LET parsed == w.out.parsed_input
        minutes == estimated_minutes(parsed.estimated_hours)
        mission == create_mission(w.nextId, user_id, w.now, minutes[1],
                       parsed.days_off, parsed.preferred_block_lengths)
    IN Node(w, IF minutes = Nothing
               THEN [w EXCEPT !.raised = "OverflowError"]
               ELSE [w EXCEPT !.nextId = @ + 1, !.now = @ + 1,
                              !.out.mission = Some(mission)])

build_mission(w, user_id) ==
    LET parsed == w.out.parsed_input
        minutes == estimated_minutes(parsed.estimated_hours)
        mission == create_mission(w.nextId, user_id, w.now, minutes[1],
                       parsed.days_off, parsed.preferred_block_lengths)
    IN Node(w, IF minutes = Nothing
               THEN [w EXCEPT !.raised = "OverflowError"]
               ELSE [w EXCEPT !.missions = Put(@, mission),
                              !.semantic = index_mission(@, mission, parsed.raw_input),
                              !.nextId = @ + 1, !.now = @ + 1,
                              !.out.mission = Some(mission)])

\* Block -> ProposedBlock
ProposedBlock(b) ==
    [suggested_date |-> IF b.scheduled_start # None THEN date(b.scheduled_start) ELSE None,
     suggested_duration_minutes |-> OrInt(b.planned_duration_minutes, DefaultDuration),
     sequence_index |-> OrInt(b.sequence_index, 0)]

propose_blocks(w) ==
    Node(w, IF ~IsSome(w.out.mission)
            THEN [w EXCEPT !.out.errors = Append(@, "No mission created")]
            ELSE LET proposed == propose_blocks_for_mission(w.missions,
                                     w.out.mission[1].id, w.nextId, NumBlocks)
                 IN [w EXCEPT !.out.proposed_blocks =
                         [k \in 1..Len(proposed) |-> ProposedBlock(proposed[k])]])

summarize(w) ==
    Node(w, [w EXCEPT !.out.summary_sessions =
                 IF w.out.proposed_blocks # <<>>
                 THEN Len(w.out.proposed_blocks) ELSE None,
                      !.out.similar_missions_note = w.out.history_note])

planner_graph(w, user_id, rq) ==
    summarize(propose_blocks(build_mission(check_history(parse_input(w, rq), user_id),
                                           user_id)))

\* run_planner: the response built from the final state, or the exception
planner_response(w, user_id) ==
    IF w.raised # "none" THEN [kind |-> "raised", error |-> w.raised]
    ELSE [kind |-> "plan",
          mission |-> IF IsSome(w.out.mission) THEN w.out.mission[1]
                      ELSE Mission(EmptyId, user_id, M_ACTIVE, w.now, None, {}, <<>>),
          proposed_blocks |-> w.out.proposed_blocks,
          summary_sessions |-> w.out.summary_sessions,
          similar_missions_note |-> w.out.similar_missions_note,
          warnings |-> w.out.errors]

\* run_planner(repos, user_id, request)
PlannerRun(user_id, rq) ==
    /\ RunIdle
    /\ LET w == planner_graph(World(planner_initial_state), user_id, rq)
       IN /\ w.nextId <= MaxId + 1 /\ w.now <= MaxClock
          /\ missions' = w.missions /\ nextId' = w.nextId /\ now' = w.now
          /\ semantic' = w.semantic
          /\ out' = w.out
          /\ resp' = planner_response(w, user_id)
          /\ run' = [graph |-> "planner",
                     pc |-> IF w.raised # "none" THEN "raised" ELSE "done",
                     user_id |-> user_id]
    /\ req' = rq
    /\ pre' = Snapshot
    /\ UNCHANGED <<blocks, episodes, profiles, today, tasks, sessions, chats>>

\* ----------------------------------------------------------- ArchivistGraph
archivist_initial_state ==
    [period |-> <<>>, block |-> Nothing, mission |-> Nothing,
     period_episodes |-> <<>>, stats |-> <<>>, completion_fifths |-> None,
     patterns |-> <<>>, highlights |-> <<>>, challenges |-> <<>>,
     episode |-> Nothing, updated_profile |-> Nothing, suggestions |-> <<>>,
     errors |-> <<>>]

\* the days a period of the kind looks back
lookback(kind) ==
    CASE kind = "block" -> 0
      [] kind = "day" -> 0
      [] kind = "week" -> 7
      [] OTHER -> 30

\* load_period_data that takes a block or mission it cannot find for an
\* error: the lookup raises
load_period_data_strict(w, user_id, rq) ==
    IF \/ IsGiven(rq.block_id) /\ ~IsSome(Get(w.blocks, rq.block_id))
       \/ IsGiven(rq.mission_id) /\ ~IsSome(Get(w.missions, rq.mission_id))
    THEN Node(w, [w EXCEPT !.raised = "KeyError"])
    ELSE
        LET end_date == IF rq.end_date # None THEN rq.end_date ELSE today
            start_date == IF rq.start_date # None THEN rq.start_date
                          ELSE today - lookback(rq.kind)
        IN Node(w, [w EXCEPT
              !.profiles = get_or_create(@, user_id, w.now),
              !.out.period = [kind |-> rq.kind, start_date |-> start_date,
                              end_date |-> end_date],
              !.out.block = IF IsGiven(rq.block_id) THEN Get(w.blocks, rq.block_id)
                            ELSE Nothing,
              !.out.mission = IF IsGiven(rq.mission_id) THEN Get(w.missions, rq.mission_id)
                              ELSE Nothing,
              !.out.period_episodes =
                  list_for_user(w.episodes, user_id, start_date, end_date)])

load_period_data(w, user_id, rq) ==
    LET end_date == IF rq.end_date # None THEN rq.end_date ELSE today
        start_date == IF rq.start_date # None THEN rq.start_date
                      ELSE today - lookback(rq.kind)
    IN Node(w, [w EXCEPT
          !.profiles = get_or_create(@, user_id, w.now),
          !.out.period = [kind |-> rq.kind, start_date |-> start_date,
                          end_date |-> end_date],
          !.out.block = IF IsGiven(rq.block_id) THEN Get(w.blocks, rq.block_id)
                        ELSE Nothing,
          !.out.mission = IF IsGiven(rq.mission_id) THEN Get(w.missions, rq.mission_id)
                          ELSE Nothing,
          !.out.period_episodes =
              list_for_user(w.episodes, user_id, start_date, end_date)])

\* min(1.0, blocks_completed / 5) in fifths
completion_rate(blocks_completed) ==
    IF blocks_completed < NumBlocks THEN blocks_completed ELSE NumBlocks

compute_stats(w, user_id) ==
    LET stats == compute_period_stats(w.episodes, user_id,
                     w.out.period.start_date, w.out.period.end_date)
    IN Node(w, [w EXCEPT
          !.out.stats = stats,
          !.out.completion_fifths = IF stats.blocks_completed > 0
                                    THEN completion_rate(stats.blocks_completed)
                                    ELSE None])

identify_patterns(w) ==
    LET stats == w.out.stats
        sum == stats.avg_focus_score[1]
        n == stats.avg_focus_score[2]
    IN Node(w, [w EXCEPT
          !.out.highlights =
              (IF stats.blocks_completed > 0 THEN <<"blocks">> ELSE <<>>)
              \o (IF stats.total_focused_minutes > 60 THEN <<"focus time">> ELSE <<>>),
          !.out.challenges =
              IF stats.total_leaked_minutes > 30 THEN <<"leak time">> ELSE <<>>,
          !.out.patterns =
              IF n > 0 /\ sum >= 4 * n THEN <<"strong focus">>
              ELSE IF n > 0 /\ sum < 3 * n THEN <<"shorter blocks">>
              ELSE <<>>])

\* EpisodeKind(kind_str): the value, or <<>> when the enum has no such value
\* and the constructor raises ValueError
to_episode_kind(kind_str) ==
    IF kind_str \in EpisodeKind THEN Some(kind_str) ELSE Nothing

\* write_episode that keeps one reflection episode per user: the new episode
\* takes the id of the user's newest stored episode when there is one
write_episode_replacing(w, user_id, rq) ==
    LET kind == to_episode_kind(w.out.period.kind)
        stats == w.out.stats
        mine == list_for_user(w.episodes, user_id, None, None)
        id == IF mine = <<>> THEN w.nextId ELSE mine[1].id
        episode == Episode(id, user_id, kind[1], w.now, today, rq.focus_score,
                       stats.total_focused_minutes, stats.total_leaked_minutes,
                       {w.out.period.kind}
                         \cup (IF rq.user_reflection THEN {"has_reflection"} ELSE {}))
    IN Node(w, IF kind = Nothing
               THEN [w EXCEPT !.raised = "ValueError"]
               ELSE [w EXCEPT !.episodes = Put(@, episode),
                              !.nextId = @ + 1, !.now = @ + 1,
                              !.out.episode = Some(episode)])

write_episode(w, user_id, rq) ==
    LET kind == to_episode_kind(w.out.period.kind)
        stats == w.out.stats
        episode == Episode(w.nextId, user_id, kind[1], w.now, today, rq.focus_score,
                       stats.total_focused_minutes, stats.total_leaked_minutes,
                       {w.out.period.kind}
                         \cup (IF rq.user_reflection THEN {"has_reflection"} ELSE {}))
    IN Node(w, IF kind = Nothing
               THEN [w EXCEPT !.raised = "ValueError"]
               ELSE [w EXCEPT !.episodes = Put(@, episode),
                              !.nextId = @ + 1, !.now = @ + 1,
                              !.out.episode = Some(episode)])

update_profile(w, user_id) ==
    LET ps == get_or_create(w.profiles, user_id, w.now)
        updated == update_user_stats(ps[user_id], w.out.stats.blocks_completed,
                                     w.out.stats.total_focused_minutes, 0, w.now)
    IN Node(w, [w EXCEPT !.profiles = [ps EXCEPT ![user_id] = updated],
                         !.out.updated_profile = Some(updated)])

build_summary(w) ==
    Node(w, [w EXCEPT !.out.suggestions =
                 SelectSeq(w.out.patterns, LAMBDA p : p = "shorter blocks")])

archivist_graph(w, user_id, rq) ==
    build_summary(update_profile(write_episode(identify_patterns(compute_stats(
        load_period_data(w, user_id, rq), user_id)), user_id, rq), user_id))

\* run_archivist: the response built from the final state, or the exception
archivist_response(w, user_id, rq) ==
    IF w.raised # "none" THEN [kind |-> "raised", error |-> w.raised]
    ELSE [kind |-> "reflection",
          episode |-> IF IsSome(w.out.episode) THEN w.out.episode[1]
                      ELSE Episode(EmptyId, user_id, rq.kind, w.now, today,
                                   None, None, None, {}),
          highlights |-> w.out.highlights,
          challenges |-> w.out.challenges,
          patterns |-> w.out.patterns,
          total_focused_minutes |-> w.out.stats.total_focused_minutes,
          total_leaked_minutes |-> w.out.stats.total_leaked_minutes,
          blocks_completed |-> w.out.stats.blocks_completed,
          completion_fifths |-> w.out.completion_fifths,
          updated_profile |-> w.out.updated_profile,
          suggestions |-> w.out.suggestions]

\* run_archivist(repos, user_id, request)
ArchivistRun(user_id, rq) ==
    /\ RunIdle
    /\ LET w == archivist_graph(World(archivist_initial_state), user_id, rq)
       IN /\ w.nextId <= MaxId + 1 /\ w.now <= MaxClock
          /\ episodes' = w.episodes /\ profiles' = w.profiles
          /\ nextId' = w.nextId /\ now' = w.now
          /\ out' = w.out
          /\ resp' = archivist_response(w, user_id, rq)
          /\ run' = [graph |-> "archivist",
                     pc |-> IF w.raised # "none" THEN "raised" ELSE "done",
                     user_id |-> user_id]
    /\ req' = rq
    /\ pre' = Snapshot
    /\ UNCHANGED <<missions, blocks, today, tasks, sessions, chats, semantic>>

\* MemoryTools.save_episode called directly for a finished session
SaveEpisode(user_id, focus_score, focused, leaked) ==
    /\ RunIdle
    /\ nextId <= MaxId /\ now < MaxClock
    /\ episodes' = Put(episodes, Episode(nextId, user_id, "session", now, today,
                                         focus_score, focused, leaked, {}))
    /\ nextId' = nextId + 1 /\ now' = now + 1
    /\ UNCHANGED <<missions, blocks, profiles, today, run, req, out, resp, pre, tasks,
                   sessions, chats, semantic>>

\* ------------------------------------------------- tool calls outside a run
\* TimelineTools.create_block called directly (25 minutes by default)
CreateBlock(user_id, mission_id, scheduled_start) ==
    /\ RunIdle
    /\ nextId <= MaxId
    /\ blocks' = Put(blocks, create_block(blocks, nextId, user_id, mission_id,
                                          scheduled_start, DefaultDuration))
    /\ nextId' = nextId + 1
    /\ UNCHANGED <<missions, episodes, profiles, now, today, run, req, out, resp,
                   pre, tasks, sessions, chats, semantic>>

\* a timeline tool call that runs from get to update without suspending,
\* as it does on the in-memory repository
TimelineCall(tool, block_id) ==
    /\ RunIdle
    /\ block_id \in DOMAIN blocks
    /\ tool = "start_block" => now < MaxClock
    /\ blocks' = Put(blocks, timeline_copy(tool, blocks[block_id], now))
    /\ now' = IF tool = "start_block" THEN now + 1 ELSE now
    /\ UNCHANGED <<missions, episodes, profiles, nextId, today, run, req, out, resp,
                   pre, tasks, sessions, chats, semantic>>

\* MissionTools.create_mission called directly, with the title "alpha" and
\* default constraints
CreateMission(user_id) ==
    /\ RunIdle
    /\ nextId <= MaxId /\ now < MaxClock
    /\ LET mission == create_mission(nextId, user_id, now, None, {}, <<>>)
       IN  /\ missions' = Put(missions, mission)
           /\ semantic' = index_mission(semantic, mission, {"alpha"})
    /\ nextId' = nextId + 1
    /\ now' = now + 1
    /\ UNCHANGED <<blocks, episodes, profiles, today, run, req, out, resp, pre, tasks,
                   sessions, chats>>

MissionSetStatus(mission_id, status) ==
    /\ RunIdle
    /\ now < MaxClock
    /\ mission_id \in DOMAIN missions
    /\ missions' = Put(missions, update_mission(missions[mission_id], status, now))
    /\ now' = now + 1
    /\ UNCHANGED <<blocks, episodes, profiles, nextId, today, run, req, out, resp,
                   pre, tasks, sessions, chats, semantic>>

\* ------------------------------------------------------------ specification
NoTask == [pc |-> "idle", tool |-> "none", block |-> Nothing, overlapped |-> FALSE]

\* the chat calls that can be in flight at once, and a call not in flight
Chats == {"c1", "c2"}
NoChat == [pc |-> "idle"]
TimelineOps == {"start_block", "complete_block", "cancel_block", "skip_block"}

Init ==
    /\ missions = <<>> /\ blocks = <<>> /\ episodes = <<>> /\ profiles = <<>>
    /\ nextId = 1 /\ now = 0 /\ today = 0
    /\ run = Idle /\ req = <<>> /\ out = <<>> /\ resp = NoResp /\ pre = <<>>
    /\ tasks = [t \in Tasks |-> NoTask]
    /\ sessions = <<>> /\ chats = [c \in Chats |-> NoChat]
    /\ semantic = NoSemantic

IdChoices(repo) == {None, UnknownId} \cup DOMAIN repo

CoachRuns ==
    \E u \in Users, m \in IdChoices(missions), b \in IdChoices(blocks),
       a \in AvailableMinutes : CoachRun(u, m, b, a)

\* the caller of create_block names the mission; the block is the caller's
CreateBlocks ==
    \E u \in Users, m \in DOMAIN missions \cup {UnknownId}, d \in {None, combine(today, NineOClock)} :
        CreateBlock(u, m, d)

\* pause_mission and resume_mission
MissionCalls ==
    \/ \E u \in Users : CreateMission(u)
    \/ \E m \in DOMAIN missions, st \in {M_PAUSED, M_ACTIVE} : MissionSetStatus(m, st)

CoachTimelineCalls ==
    \E tool \in {"start_block", "complete_block"}, b \in DOMAIN blocks :
        TimelineCall(tool, b)

TimelineCalls ==
    \E tool \in TimelineOps, b \in DOMAIN blocks : TimelineCall(tool, b)

\* coach runs over missions that are created, paused and resumed and blocks
\* that are created, started and completed
NextCoach == CoachRuns \/ CreateBlocks \/ CoachTimelineCalls \/ MissionCalls \/ Finish

SpecCoach == Init /\ [][NextCoach]_vars

\* coach runs on RunSessionRequest(): no mission_id, block_id or
\* available_minutes
CoachDefaultRuns == \E u \in Users : CoachRun(u, None, None, None)

NextCoachDefault ==
    CoachDefaultRuns \/ CreateBlocks \/ CoachTimelineCalls \/ MissionCalls \/ Finish

SpecCoachDefault == Init /\ [][NextCoachDefault]_vars

\* coach runs and the four session-management tools
NextSession ==
    \/ CoachRuns
    \/ CreateBlocks
    \/ TimelineCalls
    \/ \E u \in Users : CreateMission(u)
    \/ Finish

SpecSession == Init /\ [][NextSession]_vars

\* the user's blocks that are in progress
InProgressOf(bs, user_id) ==
    {b \in DOMAIN bs : bs[b].user_id = user_id /\ bs[b].status = IN_PROGRESS}

\* ------------------------------------- timeline tool calls that interleave
\* A tool call on a repository whose get and update suspend runs in two
\* steps; another call can run between them.  overlapped records that the
\* call was in flight together with another one.
TimelineGet(t, tool, block_id) ==
    /\ tasks[t].pc = "idle"
    /\ block_id \in DOMAIN blocks
    /\ tasks' = [q \in Tasks |->
                   IF q = t
                   THEN [pc |-> "got", tool |-> tool, block |-> Some(blocks[block_id]),
                         overlapped |-> \E o \in Tasks \ {t} : tasks[o].pc = "got"]
                   ELSE IF tasks[q].pc = "got"
                        THEN [tasks[q] EXCEPT !.overlapped = TRUE]
                        ELSE tasks[q]]
    /\ UNCHANGED <<missions, blocks, episodes, profiles, nextId, now, today,
                   run, req, out, resp, pre, sessions, chats, semantic>>

TimelineUpdate(t) ==
    /\ tasks[t].pc = "got"
    /\ tasks[t].tool = "start_block" => now < MaxClock
    /\ LET updated == timeline_copy(tasks[t].tool, tasks[t].block[1], now)
       IN /\ blocks' = Put(blocks, updated)
          /\ tasks' = [tasks EXCEPT ![t].pc = "done", ![t].block = Some(updated)]
    /\ now' = IF tasks[t].tool = "start_block" THEN now + 1 ELSE now
    /\ UNCHANGED <<missions, episodes, profiles, nextId, today, run, req, out, resp, pre,
                   sessions, chats, semantic>>

\* both callers have their results
TimelineReturn ==
    /\ \A t \in Tasks : tasks[t].pc = "done"
    /\ tasks' = [t \in Tasks |-> NoTask]
    /\ UNCHANGED <<missions, blocks, episodes, profiles, nextId, now, today,
                   run, req, out, resp, pre, sessions, chats, semantic>>

NextConcurrent ==
    \/ \E u \in Users, d \in {None, combine(today, NineOClock)} : CreateBlock(u, UnknownId, d)
    \/ \E t \in Tasks, tool \in {"start_block", "complete_block"},
          b \in DOMAIN blocks : TimelineGet(t, tool, b)
    \/ \E t \in Tasks : TimelineUpdate(t)
    \/ TimelineReturn

SpecConcurrent == Init /\ [][NextConcurrent]_vars

\* planner runs on any day of the week, over missions and blocks that exist
InitPlanner ==
    /\ missions = <<>> /\ blocks = <<>> /\ episodes = <<>> /\ profiles = <<>>
    /\ nextId = 1 /\ now = 0 /\ today \in 0..(Week - 1)
    /\ run = Idle /\ req = <<>> /\ out = <<>> /\ resp = NoResp /\ pre = <<>>
    /\ tasks = [t \in Tasks |-> NoTask]
    /\ sessions = <<>> /\ chats = [c \in Chats |-> NoChat]
    /\ semantic = NoSemantic

PlannerRuns == \E u \in Users, rq \in PlanRequests : PlannerRun(u, rq)

NextPlanner == PlannerRuns \/ CreateBlocks \/ Finish

SpecPlanner == InitPlanner /\ [][NextPlanner]_vars

\* archivist runs over the episodes that sessions and earlier runs stored
ReflectRequests ==
    [kind : ReflectPeriodKind, mission_id : {None}, block_id : {None},
     start_date : {None, today + 1}, end_date : {None},
     user_reflection : BOOLEAN, focus_score : {None}]

ArchivistRuns == \E u \in Users, rq \in ReflectRequests : ArchivistRun(u, rq)

\* a strong long session, and a short one with a low score and a leak
Sessions == {[focus_score |-> 5, focused |-> 90, leaked |-> None],
             [focus_score |-> 2, focused |-> 25, leaked |-> 45]}

SaveEpisodes ==
    \E u \in Users, e \in Sessions :
        SaveEpisode(u, e.focus_score, e.focused, e.leaked)

NextArchivist == ArchivistRuns \/ SaveEpisodes \/ Finish

SpecArchivist == Init /\ [][NextArchivist]_vars

\* C3: after two concurrent start_block calls for two different blocks of
\* one user have both finished, that user has a sole in_progress block
C3_SoleInProgressAfterRace ==
    \A t1, t2 \in Tasks :
        (/\ t1 # t2
         /\ tasks[t1].pc = "done" /\ tasks[t2].pc = "done"
         /\ tasks[t1].tool = "start_block" /\ tasks[t2].tool = "start_block"
         /\ tasks[t1].overlapped /\ tasks[t2].overlapped
         /\ tasks[t1].block[1].id # tasks[t2].block[1].id
         /\ tasks[t1].block[1].user_id = tasks[t2].block[1].user_id)
        => Cardinality(InProgressOf(blocks, tasks[t1].block[1].user_id)) = 1

\* ------------------------------------------------------ coach run: claims
CoachDone == run.graph = "coach" /\ run.pc = "done"

HasStretchGoal(actions) == \E i \in 1..Len(actions) : actions[i].is_stretch_goal

\* C2: in every reachable state each user has at most one block with status
\* in_progress
C2_OneInProgressPerUser ==
    \A u \in Users : Cardinality(InProgressOf(blocks, u)) <= 1

\* C4: a coach run selects by strict priority: the user's in_progress block
\* as a continuation whatever block_id the request names; with none in
\* progress the requested block if it resolves, else the earliest planned
\* block, else a block that was not stored before the run
C4_StrictPriority ==
    CoachDone =>
        LET cur == get_current_block(pre.blocks, run.user_id)
            requested == IF IsGiven(req.block_id) THEN Get(pre.blocks, req.block_id)
                         ELSE Nothing
            mission_id == IF IsSome(out.mission) THEN out.mission[1].id ELSE None
            next == get_next_planned_block(pre.blocks, run.user_id, mission_id)
        IN IF IsSome(cur)
           THEN resp.block.id = cur[1].id /\ out.is_continuation
           ELSE IF IsSome(requested) THEN resp.block.id = requested[1].id
           ELSE IF IsSome(next) THEN resp.block.id = next[1].id
           ELSE resp.block.id \notin DOMAIN pre.blocks

\* the case C5 is about: the user has no active mission and no in_progress
\* block, and the request names neither a mission nor a block
C5_Case ==
    /\ CoachDone
    /\ req.mission_id = None /\ req.block_id = None
    /\ ~IsSome(get_active_mission(pre.missions, run.user_id))
    /\ InProgressOf(pre.blocks, run.user_id) = {}

C5_Placeholder ==
    /\ "No mission or block available" \in {resp.warnings[i] : i \in DOMAIN resp.warnings}
    /\ resp.block.id \notin DOMAIN blocks
    /\ resp.block.mission_id = EmptyId
    /\ resp.block.status = PLANNED

PlannedToday(bs, user_id) ==
    SelectSeq(list_for_user_date(bs, user_id, today), LAMBDA b : b.status = PLANNED)

\* C5 (as stated): with no active mission and no in_progress block, whatever
\* other blocks the user has stored, a run_session with neither mission_id
\* nor block_id returns the warning and a planned placeholder block
C5_AsStated == C5_Case => C5_Placeholder

\* C5 (amended): the same, for a user who has no planned block scheduled
\* today; the user's other stored blocks do not matter
C5_PlaceholderUnlessPlannedToday ==
    (C5_Case /\ PlannedToday(pre.blocks, run.user_id) = <<>>) => C5_Placeholder

C5_Witness ==
    /\ C5_Case
    /\ PlannedToday(pre.blocks, run.user_id) = <<>>
    /\ \E b \in DOMAIN pre.blocks : /\ pre.blocks[b].user_id = run.user_id
                                     /\ pre.blocks[b].status = PLANNED
    /\ \E m \in DOMAIN pre.missions : pre.missions[m].user_id = run.user_id
    /\ C5_Placeholder

\* the case C8 is about: the run resolved a mission and found no in_progress
\* block, no resolvable requested block and no planned block of the mission
C8_Case ==
    /\ CoachDone
    /\ IsSome(out.mission)
    /\ InProgressOf(pre.blocks, run.user_id) = {}
    /\ ~(IsGiven(req.block_id) /\ req.block_id \in DOMAIN pre.blocks)
    /\ list_for_mission(pre.blocks, out.mission[1].id, PLANNED) = <<>>

\* C8: in that case the run stores exactly one new block, for that mission
\* and owned by the caller, of available_minutes when supplied and 25
\* otherwise, and the response has a stretch goal iff the duration is >= 40
C8_NewBlock ==
    C8_Case =>
        LET new == DOMAIN blocks \ DOMAIN pre.blocks
            duration == IF req.available_minutes # None
                        THEN req.available_minutes ELSE DefaultDuration
        IN /\ Cardinality(new) = 1
           /\ \A n \in new :
                /\ blocks[n].mission_id = out.mission[1].id
                /\ blocks[n].user_id = run.user_id
                /\ blocks[n].planned_duration_minutes = duration
                /\ resp.block.id = n
           /\ HasStretchGoal(resp.actions) <=> duration >= StretchThreshold

LegalTransition(s, t) ==
    \/ s = PLANNED /\ t = IN_PROGRESS
    \/ s = IN_PROGRESS /\ t = COMPLETED
    \/ s \in {PLANNED, IN_PROGRESS} /\ t \in {CANCELLED, SKIPPED}

\* C10: a stored block's status changes only along planned -> in_progress ->
\* completed, or to cancelled / skipped; a completed, cancelled or skipped
\* block never becomes in_progress again
C10_StatusTransitions ==
    [][\A b \in DOMAIN blocks :
          \/ blocks'[b].status = blocks[b].status
          \/ LegalTransition(blocks[b].status, blocks'[b].status)]_vars

\* ---------------------------------------------------- planner run: claims
PlannerEnded == run.graph = "planner" /\ run.pc \in {"done", "raised"}
PlannerReturned == run.graph = "planner" /\ run.pc = "done"

\* C6: when build_mission creates no mission the run still returns a
\* response: a placeholder mission with empty id, no proposed blocks and the
\* warning "No mission created"
C6_PlaceholderOnFailure ==
    (PlannerEnded /\ ~IsSome(out.mission)) =>
        /\ resp.kind = "plan"
        /\ resp.mission.id = EmptyId
        /\ resp.proposed_blocks = <<>>
        /\ "No mission created" \in {resp.warnings[i] : i \in DOMAIN resp.warnings}

\* C7: the proposed blocks are at most 5, none on a weekday in days_off,
\* with sequence_index 0..k-1 in date order; with no days_off they are 5, on
\* the 5 days from today, each of the mission's first preferred length, or
\* 25 when none is set
C7_ProposedBlocks ==
    PlannerReturned =>
        LET pb == resp.proposed_blocks
            m == resp.mission
        IN /\ Len(pb) <= NumBlocks
           /\ \A k \in DOMAIN pb :
                /\ (pb[k].suggested_date % Week) \notin m.days_off
                /\ pb[k].sequence_index = k - 1
                /\ k > 1 => pb[k - 1].suggested_date < pb[k].suggested_date
           /\ m.days_off = {} =>
                /\ Len(pb) = NumBlocks
                /\ \A k \in DOMAIN pb :
                     /\ pb[k].suggested_date = today + k - 1
                     /\ pb[k].suggested_duration_minutes =
                            IF m.preferred_block_lengths # <<>>
                            THEN m.preferred_block_lengths[1] ELSE DefaultDuration

\* what every planner run leaves alone: the stored missions, blocks, episodes
\* and profiles; and the proposals are not stored
PlannerFrame ==
    /\ \A m \in DOMAIN pre.missions : m \in DOMAIN missions /\ missions[m] = pre.missions[m]
    /\ blocks = pre.blocks /\ episodes = pre.episodes /\ profiles = pre.profiles
    /\ IsSome(out.mission) =>
         LET proposed == propose_blocks_for_mission(missions, out.mission[1].id,
                                                    nextId, NumBlocks)
         IN /\ \A k \in DOMAIN proposed : Get(blocks, proposed[k].id) = Nothing
            /\ list_for_mission(blocks, out.mission[1].id, "any") = <<>>

NewMissions == DOMAIN missions \ DOMAIN pre.missions

\* C9: every planner run adds exactly one mission and leaves blocks, episodes
\* and profiles unchanged; no proposed block can be fetched by id or listed
\* for the mission
C9_OneMissionNoBlocks == PlannerEnded => (Cardinality(NewMissions) = 1 /\ PlannerFrame)

\* -------------------------------------------------- archivist run: claims
ArchivistEnded == run.graph = "archivist" /\ run.pc \in {"done", "raised"}

NewEpisodes == DOMAIN episodes \ DOMAIN pre.episodes

\* C1: for every period kind a reflect_period run completes without raising,
\* stores exactly one new episode of the user tagged with the period kind,
\* and returns that episode
C1_OneEpisodePerRun ==
    ArchivistEnded =>
        /\ run.pc = "done"
        /\ Cardinality(NewEpisodes) = 1
        /\ \A e \in NewEpisodes :
             /\ episodes[e].user_id = run.user_id
             /\ req.kind \in episodes[e].tags
             /\ resp.kind = "reflection" /\ resp.episode = episodes[e]

\* ------------------------------------------------- MissionTools: all calls
\* update_mission(mission_id, status=status): status None (NoStatus) leaves
\* the stored status and rewrites updated_at only
NoStatus == "none"

update_mission_call(m, status, t) ==
    IF status = NoStatus THEN [m EXCEPT !.updated_at = t] ELSE update_mission(m, status, t)

complete_mission(m, t) == update_mission_call(m, M_COMPLETED, t)
pause_mission(m, t) == update_mission_call(m, M_PAUSED, t)
resume_mission(m, t) == update_mission_call(m, M_ACTIVE, t)
abandon_mission(m, t) == update_mission_call(m, M_ABANDONED, t)

MissionOps == {"update_mission", "complete_mission", "pause_mission",
               "resume_mission", "abandon_mission"}

\* one mission tool call on a stored mission
MissionCall(tool, mission_id, status) ==
    /\ RunIdle
    /\ now < MaxClock
    /\ mission_id \in DOMAIN missions
    /\ LET m == missions[mission_id]
           updated == CASE tool = "update_mission" -> update_mission_call(m, status, now)
                        [] tool = "complete_mission" -> complete_mission(m, now)
                        [] tool = "pause_mission" -> pause_mission(m, now)
                        [] tool = "resume_mission" -> resume_mission(m, now)
                        [] tool = "abandon_mission" -> abandon_mission(m, now)
       IN  missions' = Put(missions, updated)
    /\ now' = now + 1
    /\ UNCHANGED <<blocks, episodes, profiles, nextId, today, run, req, out, resp,
                   pre, tasks, sessions, chats, semantic>>

MissionToolCalls ==
    \/ \E m \in DOMAIN missions, st \in MissionStatus \cup {NoStatus} :
          MissionCall("update_mission", m, st)
    \/ \E tool \in MissionOps \ {"update_mission"}, m \in DOMAIN missions :
          MissionCall(tool, m, NoStatus)

\* MissionTools.get_active_mission(user_id): a read.  The caller keeps the
\* result; a call that follows another for the same user, with no write in
\* between, also keeps the earlier result to compare
GetActiveMission(user_id) ==
    /\ RunIdle \/ run.graph = "get_active_mission"
    /\ LET again == run.graph = "get_active_mission" /\ run.user_id = user_id
       IN  /\ resp' = [kind |-> "mission",
                       mission |-> get_active_mission(missions, user_id),
                       calls |-> IF again THEN 2 ELSE 1,
                       previous |-> IF again THEN resp.mission ELSE Nothing]
           /\ pre' = IF again THEN pre ELSE Snapshot
    /\ run' = [graph |-> "get_active_mission", pc |-> "done", user_id |-> user_id]
    /\ UNCHANGED <<missions, blocks, episodes, profiles, nextId, now, today, req,
                   out, tasks, sessions, chats, semantic>>

GetActiveMissions == \E u \in Users : GetActiveMission(u)

\* missions that are created, updated by the mission tools and read back
NextMission ==
    \/ \E u \in Users : CreateMission(u)
    \/ MissionToolCalls
    \/ GetActiveMissions
    \/ Finish

SpecMission == Init /\ [][NextMission]_vars

\* ------------------------------------------------ mission tools: claims
LegalMissionTransition(s, t) ==
    \/ s = M_ACTIVE /\ t \in {M_PAUSED, M_COMPLETED, M_ABANDONED}
    \/ s = M_PAUSED /\ t = M_ACTIVE

\* C11: across mission tool calls a stored mission's status changes only
\* along active -> paused, active -> completed, active -> abandoned and
\* paused -> active; a completed or abandoned mission never becomes active
C11_MissionTransitions ==
    [][\A m \in DOMAIN missions :
          \/ missions'[m].status = missions[m].status
          \/ LegalMissionTransition(missions[m].status, missions'[m].status)]_vars

\* ------------------------------------------- get_active_mission: claims
ActiveOf(ms, user_id) == {m \in DOMAIN ms : ms[m].user_id = user_id /\ ms[m].status = M_ACTIVE}

\* C20: get_active_mission(user) returns none exactly when the user has no
\* active mission, and otherwise a stored active mission of that user whose
\* updated_at is maximal among the user's active missions; a second call in
\* a row returns the same mission, and no call changes a repository
C20_GetActiveMission ==
    run.graph = "get_active_mission" =>
        LET active == ActiveOf(missions, run.user_id)
        IN  /\ IsSome(resp.mission) <=> active # {}
            /\ IsSome(resp.mission) =>
                   LET m == resp.mission[1]
                   IN  /\ m.id \in active /\ missions[m.id] = m
                       /\ \A a \in active : missions[a].updated_at <= m.updated_at
            /\ resp.calls = 2 => resp.previous = resp.mission
            /\ Snapshot = pre

\* a second call in a row for a user with two active missions
C20_Witness ==
    /\ run.graph = "get_active_mission"
    /\ resp.calls = 2
    /\ Cardinality(ActiveOf(missions, run.user_id)) = 2
    /\ IsSome(resp.mission)

\* --------------------------------------------------------------- GraphRouter
GlyphEntrypoint == {"plan_mission", "run_session", "reflect_period", "chat"}

\* the classes a request handed to call_graph can be an instance of
RequestTypes == {"PlanMissionRequest", "RunSessionRequest",
                 "ReflectPeriodRequest", "dict"}

\* the request type an entry point declares; chat declares none
declared_type(entrypoint) ==
    CASE entrypoint = "plan_mission" -> "PlanMissionRequest"
      [] entrypoint = "run_session" -> "RunSessionRequest"
      [] entrypoint = "reflect_period" -> "ReflectPeriodRequest"
      [] OTHER -> "none"

\* logger.debug("call_graph", entrypoint=..., user_id=..., request_type=...)
\* on a logging.Logger: a no-op unless DEBUG is enabled for the logger, and
\* then Logger._log rejects the keyword arguments
log_call_graph(debug_enabled) == IF debug_enabled THEN "TypeError" ELSE "none"

\* what call_graph raises before it routes, "none" when it routes
call_graph_raises(entrypoint, request_type, debug_enabled) ==
    IF log_call_graph(debug_enabled) # "none" THEN log_call_graph(debug_enabled)
    ELSE IF entrypoint = "chat" \/ request_type # declared_type(entrypoint)
         THEN "ServiceError"
         ELSE "none"

\* call_graph(entrypoint, user_id, request) ending in an exception
CallGraphRaise(entrypoint, user_id, request_type, debug_enabled) ==
    /\ RunIdle
    /\ call_graph_raises(entrypoint, request_type, debug_enabled) # "none"
    /\ run' = [graph |-> "call_graph", pc |-> "raised", user_id |-> user_id]
    /\ req' = [entrypoint |-> entrypoint, request_type |-> request_type]
    /\ resp' = LET e == call_graph_raises(entrypoint, request_type, debug_enabled)
               IN [kind |-> "raised", error |-> e,
                   code |-> IF e = "ServiceError" THEN "VALIDATION_ERROR" ELSE "none"]
    /\ out' = <<>>
    /\ pre' = Snapshot
    /\ UNCHANGED <<missions, blocks, episodes, profiles, nextId, now, today, tasks,
                   sessions, chats, semantic>>

\* call_graph(entrypoint, user_id, request) routing to plan_mission,
\* run_session or reflect_period
CallGraphRoute(entrypoint, user_id) ==
    /\ call_graph_raises(entrypoint, declared_type(entrypoint), FALSE) = "none"
    /\ CASE entrypoint = "plan_mission" ->
              \E rq \in PlanRequests : PlannerRun(user_id, rq)
         [] entrypoint = "run_session" ->
              \E a \in AvailableMinutes : CoachRun(user_id, None, None, a)
         [] entrypoint = "reflect_period" ->
              \E rq \in ReflectRequests : ArchivistRun(user_id, rq)

CallGraph ==
    \/ \E e \in GlyphEntrypoint, u \in Users, t \in RequestTypes, d \in BOOLEAN :
          CallGraphRaise(e, u, t, d)
    \/ \E e \in GlyphEntrypoint \ {"chat"}, u \in Users : CallGraphRoute(e, u)

NextRouter == CallGraph \/ Finish

SpecRouter == Init /\ [][NextRouter]_vars

\* ------------------------------------------------------ call_graph: claims
C12_Case ==
    /\ run.graph = "call_graph"
    /\ req.entrypoint = "chat" \/ req.request_type # declared_type(req.entrypoint)

\* C12: whenever the request is not an instance of the entry point's
\* declared request type, and for the chat entry point whatever the
\* request is, call_graph raises a validation ServiceError, runs no graph
\* step and changes no repository
C12_ValidationError ==
    C12_Case =>
        /\ resp.kind = "raised" /\ resp.error = "ServiceError"
        /\ resp.code = "VALIDATION_ERROR"
        /\ out = <<>>
        /\ Snapshot = pre

\* ------------------------------------------- archivist: the compute_stats step
\* The step is run on repositories that hold up to MaxEpisodes episodes, so
\* that a period can hold more episodes than list_for_user returns.
MaxEpisodes == 52

EpisodeCounts == 0..3 \cup (EpisodeLimit - 1)..MaxEpisodes

\* the episode with the i-th id in a repository of the given shape:
\* 1: sessions of u1 on day 0; 2: sessions and day reflections of both users
\* on days 0 and 1; 3: day reflections of u2 with no focused time
StoredEpisode(shape, i) ==
    CASE shape = 1 -> Episode(i, "u1", "session", i, 0, 4, 25, None, {})
      [] shape = 2 -> Episode(i, IF i % 3 = 0 THEN "u2" ELSE "u1",
                              IF i % 2 = 0 THEN "session" ELSE "day",
                              i, i % 2, IF i % 2 = 0 THEN 2 ELSE None,
                              10, 5, {})
      [] shape = 3 -> Episode(i, "u2", "day", i, 1, None, None, 45, {"day"})

InitStats ==
    /\ \E n \in EpisodeCounts, shape \in 1..3 :
          /\ episodes = [i \in 1..n |-> StoredEpisode(shape, i)]
          /\ nextId = n + 1 /\ now = n + 1
    /\ missions = <<>> /\ blocks = <<>> /\ profiles = <<>>
    /\ today = 1
    /\ run = Idle /\ req = <<>> /\ out = <<>> /\ resp = NoResp /\ pre = <<>>
    /\ tasks = [t \in Tasks |-> NoTask]
    /\ sessions = <<>> /\ chats = [c \in Chats |-> NoChat]
    /\ semantic = NoSemantic

\* ArchivistGraph._compute_stats on a state whose period load_period_data set
ComputeStats(user_id, start_date, end_date) ==
    /\ RunIdle
    /\ LET period == [kind |-> "day", start_date |-> start_date, end_date |-> end_date]
           w == compute_stats(
                    World([archivist_initial_state EXCEPT !.period = period]), user_id)
       IN /\ out' = w.out
          /\ resp' = [kind |-> "stats",
                      total_focused_minutes |-> w.out.stats.total_focused_minutes,
                      total_leaked_minutes |-> w.out.stats.total_leaked_minutes,
                      blocks_completed |-> w.out.stats.blocks_completed,
                      completion_fifths |-> w.out.completion_fifths]
          /\ req' = period
    /\ run' = [graph |-> "compute_stats", pc |-> "done", user_id |-> user_id]
    /\ pre' = Snapshot
    /\ UNCHANGED <<missions, blocks, episodes, profiles, nextId, now, today, tasks,
                   sessions, chats, semantic>>

NextStats ==
    \/ \E u \in Users, s \in 0..1, e \in 0..1 : s <= e /\ ComputeStats(u, s, e)
    \/ Finish

SpecStats == InitStats /\ [][NextStats]_vars

\* ---------------------------------------------------- period stats: claims
\* the user's episodes whose creation date lies in the period
InPeriod(user_id, start_date, end_date) ==
    {e \in DOMAIN episodes : /\ episodes[e].user_id = user_id
                             /\ episodes[e].created_day >= start_date
                             /\ episodes[e].created_day <= end_date}

RECURSIVE SumFocused(_)
SumFocused(S) ==
    IF S = {} THEN 0
    ELSE LET e == CHOOSE x \in S : TRUE
         IN (IF episodes[e].time_focused_minutes = None THEN 0
             ELSE episodes[e].time_focused_minutes) + SumFocused(S \ {e})

RECURSIVE SumLeaked(_)
SumLeaked(S) ==
    IF S = {} THEN 0
    ELSE LET e == CHOOSE x \in S : TRUE
         IN (IF episodes[e].time_leaked_minutes = None THEN 0
             ELSE episodes[e].time_leaked_minutes) + SumLeaked(S \ {e})

\* C13: total_focused_minutes and total_leaked_minutes are the sums over all
\* of the user's episodes created in the period (any kind), blocks_completed
\* is the number of those of kind session, and completion_rate is absent
\* when blocks_completed is 0 and otherwise min(1, blocks_completed / 5)
\* (kept in fifths)
C13_PeriodStats ==
    run.graph = "compute_stats" =>
        LET S == InPeriod(run.user_id, req.start_date, req.end_date)
            n == Cardinality({e \in S : episodes[e].kind = "session"})
        IN  /\ resp.total_focused_minutes = SumFocused(S)
            /\ resp.total_leaked_minutes = SumLeaked(S)
            /\ resp.blocks_completed = n
            /\ resp.completion_fifths =
                  IF n = 0 THEN None
                  ELSE IF n < 5 THEN n ELSE 5

\* the same, for periods that hold no more episodes than list_for_user returns
C13_PeriodStatsWithinLimit ==
    (/\ run.graph = "compute_stats"
     /\ Cardinality(InPeriod(run.user_id, req.start_date, req.end_date)) <= EpisodeLimit)
        => C13_PeriodStats

\* ------------------------------------------------- profiles: writes and runs
\* what a caller of the profile repository stores: a name, persona notes,
\* the pattern hints, a nudge level and a count of created missions
ProfileEdits ==
    {[display_name |-> Some("Ada"), persona_notes |-> Some("prefers short blocks"),
      nudge_level |-> "soft", avg_block_length_successful |-> 25,
      avg_start_hour_successful |-> 9, night_sessions_failure_rate |-> 75,
      morning_sessions_success_rate |-> 50, total_missions_created |-> 2]}

\* InMemoryUserProfileRepository.update(profile) on the profile that
\* get_or_create returned, with the caller's edits
ProfileUpdate(user_id, edit) ==
    /\ RunIdle
    /\ LET ps == get_or_create(profiles, user_id, now)
           updated == [ps[user_id] EXCEPT
                          !.display_name = edit.display_name,
                          !.persona_notes = edit.persona_notes,
                          !.preferences.nudge_level = edit.nudge_level,
                          !.avg_block_length_successful = edit.avg_block_length_successful,
                          !.avg_start_hour_successful = edit.avg_start_hour_successful,
                          !.night_sessions_failure_rate = edit.night_sessions_failure_rate,
                          !.morning_sessions_success_rate = edit.morning_sessions_success_rate,
                          !.total_missions_created = edit.total_missions_created]
       IN  /\ ps[user_id] # updated
           /\ profiles' = [ps EXCEPT ![user_id] = updated]
    /\ UNCHANGED <<missions, blocks, episodes, nextId, now, today, run, req, out,
                   resp, pre, tasks, sessions, chats, semantic>>

ProfileUpdates == \E u \in Users, e \in ProfileEdits : ProfileUpdate(u, e)

\* archivist runs over stored sessions and profiles that callers have edited
NextProfile == ArchivistRuns \/ SaveEpisodes \/ ProfileUpdates \/ Finish

SpecProfile == Init /\ [][NextProfile]_vars

\* ------------------------------------------------ archivist profile: claims
\* the user's profile before the run; a run on a user without one starts
\* from the profile get_or_create makes
ProfileBefore ==
    IF run.user_id \in DOMAIN pre.profiles THEN pre.profiles[run.user_id]
    ELSE UserProfile(run.user_id, profiles[run.user_id].created_at)

C14_Added ==
    /\ run.user_id \in DOMAIN profiles
    /\ LET old == ProfileBefore
           new == profiles[run.user_id]
       IN  /\ new.total_blocks_completed =
                  old.total_blocks_completed + out.stats.blocks_completed
           /\ new.total_focused_minutes =
                  old.total_focused_minutes + out.stats.total_focused_minutes
           /\ new.total_missions_created = old.total_missions_created
           /\ new.avg_block_length_successful = old.avg_block_length_successful
           /\ new.avg_start_hour_successful = old.avg_start_hour_successful
           /\ new.night_sessions_failure_rate = old.night_sessions_failure_rate
           /\ new.morning_sessions_success_rate = old.morning_sessions_success_rate
           /\ new.preferences = old.preferences
           /\ new.display_name = old.display_name
           /\ new.persona_notes = old.persona_notes
           /\ new.created_at = old.created_at

\* C14: after an archivist run the user's profile has total_blocks_completed
\* and total_focused_minutes increased by exactly the run's blocks_completed
\* and total_focused_minutes, and every other profile field unchanged
C14_ProfileStatsAdded == ArchivistEnded => C14_Added

\* the same for the runs that return a response
C14_ProfileStatsAddedOnReturn ==
    (ArchivistEnded /\ run.pc = "done") => C14_Added

\* ------------------------------------------------- graph runs, step by step
\* build(): the nodes in the order they are added, the entry point and the
\* edges of each graph
GraphNames == {"planner", "coach", "archivist"}

graph_nodes(graph) ==
    CASE graph = "planner" -> <<"parse_input", "check_history", "build_mission",
                                "propose_blocks", "summarize">>
      [] graph = "coach" -> <<"load_context", "decide_block", "generate_brief",
                              "start_session">>
      [] graph = "archivist" -> <<"load_period_data", "compute_stats",
                                  "identify_patterns", "write_episode",
                                  "update_profile", "build_summary">>

entry_point(graph) ==
    CASE graph = "planner" -> "parse_input"
      [] graph = "coach" -> "load_context"
      [] graph = "archivist" -> "load_period_data"

graph_edges(graph) ==
    CASE graph = "planner" ->
            {<<"parse_input", "check_history">>, <<"check_history", "build_mission">>,
             <<"build_mission", "propose_blocks">>, <<"propose_blocks", "summarize">>,
             <<"summarize", "END">>}
      [] graph = "coach" ->
            {<<"load_context", "decide_block">>, <<"decide_block", "generate_brief">>,
             <<"generate_brief", "start_session">>, <<"start_session", "END">>}
      [] graph = "archivist" ->
            {<<"load_period_data", "compute_stats">>,
             <<"compute_stats", "identify_patterns">>,
             <<"identify_patterns", "write_episode">>,
             <<"write_episode", "update_profile">>,
             <<"update_profile", "build_summary">>, <<"build_summary", "END">>}

\* the node the graph runs after node
next_node(graph, node) ==
    LET e == CHOOSE e \in graph_edges(graph) : e[1] = node IN e[2]

\* the world after the graph's node has run on w
run_node(graph, node, w, user_id, rq) ==
    CASE node = "parse_input" -> parse_input(w, rq)
      [] node = "check_history" -> check_history(w, user_id)
      [] node = "build_mission" -> build_mission(w, user_id)
      [] node = "propose_blocks" -> propose_blocks(w)
      [] node = "summarize" -> summarize(w)
      [] node = "load_context" -> load_context(w, user_id, rq)
      [] node = "decide_block" -> decide_block(w, user_id, rq)
      [] node = "generate_brief" -> generate_brief(w)
      [] node = "start_session" -> start_session(w)
      [] node = "load_period_data" -> load_period_data(w, user_id, rq)
      [] node = "compute_stats" -> compute_stats(w, user_id)
      [] node = "identify_patterns" -> identify_patterns(w)
      [] node = "write_episode" -> write_episode(w, user_id, rq)
      [] node = "update_profile" -> update_profile(w, user_id)
      [] node = "build_summary" -> build_summary(w)

graph_initial_state(graph) ==
    CASE graph = "planner" -> planner_initial_state
      [] graph = "coach" -> coach_initial_state
      [] graph = "archivist" -> archivist_initial_state

graph_response(graph, w, user_id, rq) ==
    CASE graph = "planner" -> planner_response(w, user_id)
      [] graph = "coach" -> coach_response(w, user_id)
      [] graph = "archivist" -> archivist_response(w, user_id, rq)

\* run_planner / run_coach / run_archivist up to graph.ainvoke(initial_state);
\* a run needs at most one new id and one reading of the clock
GraphStart(graph, user_id, rq) ==
    /\ RunIdle
    /\ nextId <= MaxId /\ now < MaxClock
    /\ run' = [graph |-> graph, pc |-> entry_point(graph), user_id |-> user_id,
               steps |-> <<>>]
    /\ req' = rq
    /\ out' = graph_initial_state(graph)
    /\ pre' = Snapshot
    /\ UNCHANGED <<missions, blocks, episodes, profiles, nextId, now, today, resp,
                   tasks, sessions, chats, semantic>>

\* ainvoke runs the node the run stands at: the node's exception ends the
\* run, the edge to END ends it with the response, any other edge moves on
GraphStep ==
    /\ run.graph \in GraphNames
    /\ run.pc \notin {"done", "raised"}
    /\ LET w == run_node(run.graph, run.pc, World(out), run.user_id, req)
           next == next_node(run.graph, run.pc)
       IN  /\ missions' = w.missions /\ blocks' = w.blocks
           /\ episodes' = w.episodes /\ profiles' = w.profiles
           /\ nextId' = w.nextId /\ now' = w.now
           /\ semantic' = w.semantic
           /\ out' = w.out
           /\ run' = [run EXCEPT
                        !.pc = IF w.raised # "none" THEN "raised"
                               ELSE IF next = "END" THEN "done" ELSE next,
                        !.steps = Append(@, run.pc)]
           /\ resp' = IF w.raised # "none" \/ next = "END"
                      THEN graph_response(run.graph, w, run.user_id, req)
                      ELSE resp
    /\ UNCHANGED <<today, req, pre, tasks, sessions, chats>>

\* the requests the three graphs are started on
GraphStarts ==
    \/ \E u \in Users, rq \in PlanRequests : GraphStart("planner", u, rq)
    \/ \E u \in Users, a \in AvailableMinutes :
          GraphStart("coach", u, [mission_id |-> None, block_id |-> None,
                                  available_minutes |-> a])
    \/ \E u \in Users, rq \in ReflectRequests : GraphStart("archivist", u, rq)

NextSteps == GraphStarts \/ GraphStep \/ Finish

SpecSteps == Init /\ [][NextSteps]_vars

\* ---------------------------------------------------- step order: claims
StepsEnded == run.graph \in GraphNames /\ run.pc \in {"done", "raised"}

\* C15: each run of a graph executes every declared step exactly once, in
\* the declared order, and then ends, also when an earlier step has appended
\* an entry to the error list
C15_AllStepsInOrder ==
    StepsEnded =>
        run.steps =
            CASE run.graph = "planner" ->
                    <<"parse_input", "check_history", "build_mission",
                      "propose_blocks", "summarize">>
              [] run.graph = "coach" ->
                    <<"load_context", "decide_block", "generate_brief",
                      "start_session">>
              [] run.graph = "archivist" ->
                    <<"load_period_data", "compute_stats", "identify_patterns",
                      "write_episode", "update_profile", "build_summary">>

\* the same for the runs that return a response
C15_AllStepsInOrderOnReturn ==
    (StepsEnded /\ run.pc = "done") => C15_AllStepsInOrder

\* a run that went on after a step appended to the error list
C15_ErrorsReached == StepsEnded /\ run.pc = "done" /\ out.errors # <<>>

\* ------------------------------------------------- GlyphAgentService.chat
\* a session id chosen by a client
ClientSessionId == MaxId + 200

\* the session_id arguments chat is called with: None, "" and a client's id
SuppliedSessionIds == {None, EmptyId, ClientSessionId}

SubstituteText == "I'm here to help! (Note: LLM service temporarily unavailable)"

\* "if not session_id: session_id = new_id()"
chat_session_id(supplied, fresh) == IF IsGiven(supplied) THEN supplied ELSE fresh

\* user_context: the notes about the user, when the profile has any
user_context(profile) == profile.persona_notes

\* WorkflowTools(router, user_id=user_id): the tools keep the user they act for
WorkflowTools(user_id) == [user_id |-> user_id]

\* the persona create_glyph_persona builds; id stands for the object's
\* identity, workflow_tools for the session's tools in its tool registry
create_glyph_persona(id, workflow_tools, user_name, context, session_id) ==
    [id |-> id, workflow_tools |-> workflow_tools,
     user_name |-> user_name, user_context |-> context,
     session_id |-> session_id]

\* persona.send_message(message): the reply's content, or an exception
send_message(ok) == IF ok THEN "reply" ELSE "raised"

\* the try / except around send_message without the except clause
response_content_unguarded(sent) == sent

\* the try / except around send_message
response_content(sent) == IF sent = "raised" THEN SubstituteText ELSE sent

AgentResponse(content, session_id) ==
    [role |-> "assistant", content |-> content, conversation_id |-> session_id,
     session_id |-> session_id]

\* chat(user_id, message, session_id=supplied) up to its first await: the
\* session id, the lookup in the session map and, for a new session, the
\* call of profiles.get_or_create
ChatBegin(c, user_id, supplied) ==
    /\ chats[c].pc = "idle"
    /\ LET generated == ~IsGiven(supplied)
           session_id == chat_session_id(supplied, nextId)
           absent == session_id \notin DOMAIN sessions
           ps == IF absent THEN get_or_create(profiles, user_id, now) ELSE profiles
       IN  /\ generated => nextId <= MaxId
           /\ nextId' = IF generated THEN nextId + 1 ELSE nextId
           /\ profiles' = ps
           /\ chats' = [chats EXCEPT ![c] =
                  [pc |-> IF absent THEN "get_or_create" ELSE "send_message",
                   user_id |-> user_id, supplied |-> supplied,
                   session_id |-> session_id, absent |-> absent,
                   profile |-> IF absent THEN Some(ps[user_id]) ELSE Nothing,
                   persona |-> IF absent THEN None ELSE sessions[session_id].id,
                   failed |-> FALSE, resp |-> Nothing]]
    /\ UNCHANGED <<missions, blocks, episodes, now, today, run, req, out, resp, pre,
                   tasks, sessions, semantic>>

\* chat resumed with the profile: the persona is created and stored under
\* the session id, up to the await of send_message
ChatCreate(c) ==
    /\ chats[c].pc = "get_or_create"
    /\ nextId <= MaxId
    /\ LET profile == chats[c].profile[1]
           session_id == chats[c].session_id
           persona == create_glyph_persona(nextId, WorkflowTools(chats[c].user_id),
                                           profile.display_name,
                                           user_context(profile), session_id)
       IN  /\ sessions' = [s \in DOMAIN sessions \cup {session_id} |->
                              IF s = session_id THEN persona ELSE sessions[s]]
           /\ chats' = [chats EXCEPT ![c].pc = "send_message",
                                     ![c].persona = persona.id]
    /\ nextId' = nextId + 1
    /\ UNCHANGED <<missions, blocks, episodes, profiles, now, today, run, req, out,
                   resp, pre, tasks, semantic>>

\* chat resumed with the outcome of send_message on its persona, to the end
ChatSend(c, ok) ==
    /\ chats[c].pc = "send_message"
    /\ chats' = [chats EXCEPT
                   ![c].pc = "done",
                   ![c].failed = send_message(ok) = "raised",
                   ![c].resp = Some(AgentResponse(response_content(send_message(ok)),
                                                  chats[c].session_id))]
    /\ UNCHANGED <<missions, blocks, episodes, profiles, nextId, now, today, run,
                   req, out, resp, pre, tasks, sessions, semantic>>

\* the caller has the response
ChatReturn(c) ==
    /\ chats[c].pc = "done"
    /\ chats' = [chats EXCEPT ![c] = NoChat]
    /\ UNCHANGED <<missions, blocks, episodes, profiles, nextId, now, today, run,
                   req, out, resp, pre, tasks, sessions, semantic>>

NoChatInFlight == \A c \in Chats : chats[c].pc = "idle"

\* clear_session(session_id), called between chats
ClearSession(session_id) ==
    /\ NoChatInFlight
    /\ session_id \in DOMAIN sessions
    /\ sessions' = [s \in DOMAIN sessions \ {session_id} |-> sessions[s]]
    /\ UNCHANGED <<missions, blocks, episodes, profiles, nextId, now, today, run,
                   req, out, resp, pre, tasks, chats, semantic>>

\* clear_all_sessions(), called between chats
ClearAllSessions ==
    /\ NoChatInFlight
    /\ sessions # <<>>
    /\ sessions' = <<>>
    /\ UNCHANGED <<missions, blocks, episodes, profiles, nextId, now, today, run,
                   req, out, resp, pre, tasks, chats, semantic>>

\* chat calls of two users, two at a time, on sessions that are created and
\* cleared and profiles that callers have edited
NextChat ==
    \/ \E c \in Chats, u \in Users, s \in SuppliedSessionIds : ChatBegin(c, u, s)
    \/ \E c \in Chats : ChatCreate(c)
    \/ \E c \in Chats, ok \in BOOLEAN : ChatSend(c, ok)
    \/ \E c \in Chats : ChatReturn(c)
    \/ \E s \in DOMAIN sessions : ClearSession(s)
    \/ ClearAllSessions
    \/ ProfileUpdates

SpecChat == Init /\ [][NextChat]_vars

\* ------------------------------------------------------------ chat: claims
\* C16: chat calls in flight together that carry one session_id, which was
\* not in the session map for the first of them, all send their message to
\* one persona, the one stored for that id: no created persona is
\* overwritten or lost
C16_OnePersonaPerSession ==
    \A c1, c2 \in Chats :
        (/\ c1 # c2
         /\ chats[c1].pc = "done" /\ chats[c2].pc = "done"
         /\ chats[c1].session_id = chats[c2].session_id
         /\ chats[c1].absent \/ chats[c2].absent)
        => /\ chats[c1].persona = chats[c2].persona
           /\ chats[c1].session_id \in DOMAIN sessions
           /\ sessions[chats[c1].session_id].id = chats[c1].persona

C17_Case(c) == chats[c].pc = "done" /\ chats[c].failed

C17_Substitute(c) ==
    LET r == chats[c].resp[1]
    IN  /\ IsSome(chats[c].resp)
        /\ r.role = "assistant" /\ r.content = SubstituteText
        /\ r.conversation_id = r.session_id
        /\ r.session_id \in DOMAIN sessions

ReflectLookups ==
    [kind : ReflectPeriodKind,
     mission_id : {None, UnknownId} \cup DOMAIN missions,
     block_id : {None, UnknownId} \cup DOMAIN blocks,
     start_date : {None}, end_date : {None},
     user_reflection : {FALSE}, focus_score : {None}]

ReflectStarts ==
    \E u \in Users, rq \in ReflectLookups : GraphStart("archivist", u, rq)

\* archivist runs, step by step, over stored missions, blocks and sessions
NextReflect ==
    \/ ReflectStarts
    \/ GraphStep
    \/ Finish
    \/ \E u \in Users : CreateMission(u)
    \/ \E u \in Users : CreateBlock(u, UnknownId, combine(today, NineOClock))
    \/ \E u \in Users : SaveEpisode(u, 5, 90, None)

SpecReflect == Init /\ [][NextReflect]_vars

\* ------------------------------------------- unresolved entities: claims
Unresolved(id, repo) == IsGiven(id) /\ id \notin DOMAIN repo

C18_Case ==
    /\ StepsEnded /\ run.graph = "archivist"
    /\ req.kind \in {"day", "mission"}
    /\ Unresolved(req.mission_id, pre.missions) \/ Unresolved(req.block_id, pre.blocks)

\* C18: a reflect_period run of kind day or mission whose mission_id and/or
\* block_id do not resolve runs all six steps, records the block / mission
\* as not found, stores the episode and returns a complete response
C18_UnresolvedEntities ==
    C18_Case =>
        /\ run.pc = "done"
        /\ run.steps = <<"load_period_data", "compute_stats", "identify_patterns",
                         "write_episode", "update_profile", "build_summary">>
        /\ Unresolved(req.mission_id, pre.missions) => out.mission = Nothing
        /\ Unresolved(req.block_id, pre.blocks) => out.block = Nothing
        /\ \E e \in DOMAIN episodes :
              /\ NewEpisodes = {e}
              /\ episodes[e].user_id = run.user_id
              /\ resp.kind = "reflection" /\ resp.episode = episodes[e]
        /\ IsSome(resp.updated_profile)
        /\ missions = pre.missions /\ blocks = pre.blocks

\* a finished run that named an unknown mission and an unknown block while a
\* mission is stored
C18_Witness ==
    /\ C18_Case /\ run.pc = "done"
    /\ Unresolved(req.mission_id, pre.missions)
    /\ Unresolved(req.block_id, pre.blocks)
    /\ pre.missions # <<>>

\* ------------------------------------------------- GlyphState and its dict
\* A datetime is [t, microsecond, utcoffset]: whole seconds, the microsecond
\* field and the offset in minutes of an aware datetime (None when naive).
\* Its ISO text is kept as its parts: the seconds, the fraction that is
\* printed only when microsecond is not 0, the offset printed when aware.
Datetimes == [t : {0, 1}, microsecond : {0, 5}, utcoffset : {None, 60}]

\* dt.isoformat(timespec="seconds"): the fraction is never printed
isoformat_seconds(dt) ==
    [seconds |-> dt.t, fraction |-> Nothing,
     offset |-> IF dt.utcoffset = None THEN Nothing ELSE Some(dt.utcoffset)]

\* dt.isoformat()
isoformat(dt) ==
    [seconds |-> dt.t,
     fraction |-> IF dt.microsecond = 0 THEN Nothing ELSE Some(dt.microsecond),
     offset |-> IF dt.utcoffset = None THEN Nothing ELSE Some(dt.utcoffset)]

\* datetime.fromisoformat(text)
fromisoformat(text) ==
    [t |-> text.seconds,
     microsecond |-> IF IsSome(text.fraction) THEN text.fraction[1] ELSE 0,
     utcoffset |-> IF IsSome(text.offset) THEN text.offset[1] ELSE None]

\* GlyphMode: the members by name, member.value and GlyphMode(value)
GlyphMode == {"PLANNER", "COACH", "ARCHIVIST", "CHAT"}

mode_value(member) ==
    CASE member = "PLANNER" -> "planner"
      [] member = "COACH" -> "coach"
      [] member = "ARCHIVIST" -> "archivist"
      [] member = "CHAT" -> "chat"

mode_of_value(value) == CHOOSE member \in GlyphMode : mode_value(member) = value

GlyphContext(user_id, session_id, mission_id, block_id, surface, user_name, timezone, graph_id, focus_node_ids) ==
    [user_id |-> user_id, session_id |-> session_id, mission_id |-> mission_id,
     block_id |-> block_id, surface |-> surface, user_name |-> user_name,
     timezone |-> timezone, graph_id |-> graph_id,
     focus_node_ids |-> focus_node_ids]

GlyphState(context, mode, messages, scratchpad, outputs, errors, started_at, updated_at) ==
    [context |-> context, mode |-> mode, messages |-> messages,
     scratchpad |-> scratchpad, outputs |-> outputs, errors |-> errors,
     started_at |-> started_at, updated_at |-> updated_at]

\* data.get(key, default)
dict_get(data, key, default) == IF key \in DOMAIN data THEN data[key] ELSE default

state_to_dict(state) ==
    [context |->
        [user_id |-> state.context.user_id,
         session_id |-> state.context.session_id,
         mission_id |-> state.context.mission_id,
         block_id |-> state.context.block_id,
         surface |-> state.context.surface,
         user_name |-> state.context.user_name,
         timezone |-> state.context.timezone,
         graph_id |-> state.context.graph_id,
         focus_node_ids |-> state.context.focus_node_ids],
     mode |-> mode_value(state.mode),
     messages |-> state.messages,
     scratchpad |-> state.scratchpad,
     outputs |-> state.outputs,
     errors |-> state.errors,
     started_at |-> isoformat(state.started_at),
     updated_at |-> isoformat(state.updated_at)]

\* dict_to_state(data) at datetime.now() = t
dict_to_state(data, t) ==
    LET ctx_data == dict_get(data, "context", <<>>)
        context == GlyphContext(dict_get(ctx_data, "user_id", ""),
                                dict_get(ctx_data, "session_id", None),
                                dict_get(ctx_data, "mission_id", None),
                                dict_get(ctx_data, "block_id", None),
                                dict_get(ctx_data, "surface", "api"),
                                dict_get(ctx_data, "user_name", Nothing),
                                dict_get(ctx_data, "timezone", "UTC"),
                                dict_get(ctx_data, "graph_id", None),
                                dict_get(ctx_data, "focus_node_ids", <<>>))
    IN GlyphState(context,
                  mode_of_value(dict_get(data, "mode", "chat")),
                  dict_get(data, "messages", <<>>),
                  dict_get(data, "scratchpad", ""),
                  dict_get(data, "outputs", <<>>),
                  dict_get(data, "errors", <<>>),
                  IF "started_at" \in DOMAIN data THEN fromisoformat(data["started_at"])
                  ELSE t,
                  IF "updated_at" \in DOMAIN data THEN fromisoformat(data["updated_at"])
                  ELSE t)

\* the states that are converted: every context on a default state, every
\* mode, message list, scratchpad, output dict and error list on a default
\* context, and every pair of timestamps
GlyphContexts ==
    [user_id : {"u1", ""}, session_id : {None, ClientSessionId},
     mission_id : {None, 1}, block_id : {None, 2},
     surface : {"api", "focus_dock"}, user_name : {Nothing, Some("Ada")},
     timezone : {"UTC", "Europe/Paris"}, graph_id : {None, 1},
     focus_node_ids : {<<>>, <<1, 2>>}]

DefaultContext == GlyphContext("u1", None, None, None, "api", Nothing, "UTC", None, <<>>)
DefaultDatetime == [t |-> 0, microsecond |-> 0, utcoffset |-> None]

GlyphStates ==
    {GlyphState(c, "CHAT", <<>>, "", <<>>, <<>>, DefaultDatetime, DefaultDatetime) :
        c \in GlyphContexts}
    \cup {GlyphState(DefaultContext, m, msgs, pad, outs, errs, DefaultDatetime,
                     DefaultDatetime) :
            m \in GlyphMode,
            msgs \in {<<>>, <<[role |-> "user", content |-> "hi"]>>},
            pad \in {"", "plan first"},
            outs \in {<<>>, [request |-> [kind |-> "day"]]},
            errs \in {<<>>, <<"No mission created">>}}
    \cup {GlyphState(DefaultContext, "COACH", <<>>, "", <<>>, <<>>, s, u) :
            s \in Datetimes, u \in Datetimes}

\* the dict with keys added that are not declared fields
with_unknown_keys(data, extra) ==
    IF ~extra THEN data
    ELSE [k \in DOMAIN data \cup {"checkpoint_id"} |->
            IF k = "checkpoint_id" THEN 7
            ELSE IF k = "context"
                 THEN [j \in DOMAIN data.context \cup {"tenant"} |->
                          IF j = "tenant" THEN "acme" ELSE data.context[j]]
                 ELSE data[k]]

\* dict_to_state(state_to_dict(state)), with or without unknown keys added
\* to the dict in between
RoundTrip(state, extra) ==
    /\ RunIdle
    /\ LET data == with_unknown_keys(state_to_dict(state), extra)
       IN  /\ req' = state
           /\ out' = data
           /\ resp' = [kind |-> "state",
                       state |-> dict_to_state(data, [t |-> now, microsecond |-> 1,
                                                      utcoffset |-> None])]
    /\ run' = [graph |-> "round_trip", pc |-> "done", user_id |-> state.context.user_id]
    /\ pre' = Snapshot
    /\ UNCHANGED <<missions, blocks, episodes, profiles, nextId, now, today, tasks,
                   sessions, chats, semantic>>

NextRoundTrip ==
    \/ \E s \in GlyphStates, extra \in BOOLEAN : RoundTrip(s, extra)
    \/ Finish

SpecRoundTrip == Init /\ [][NextRoundTrip]_vars

\* ------------------------------------------------------ round trip: claims
\* C19: dict_to_state(state_to_dict(s)) equals s on every declared field:
\* all context fields, mode, messages, scratchpad, outputs, errors,
\* started_at and updated_at; keys that are not declared fields are ignored
C19_RoundTrip ==
    run.graph = "round_trip" =>
        LET s == req
            r == resp.state
        IN  /\ r.context.user_id = s.context.user_id
            /\ r.context.session_id = s.context.session_id
            /\ r.context.mission_id = s.context.mission_id
            /\ r.context.block_id = s.context.block_id
            /\ r.context.surface = s.context.surface
            /\ r.context.user_name = s.context.user_name
            /\ r.context.timezone = s.context.timezone
            /\ r.context.graph_id = s.context.graph_id
            /\ r.context.focus_node_ids = s.context.focus_node_ids
            /\ DOMAIN r.context = DOMAIN s.context
            /\ r.mode = s.mode
            /\ r.messages = s.messages
            /\ r.scratchpad = s.scratchpad
            /\ r.outputs = s.outputs
            /\ r.errors = s.errors
            /\ r.started_at = s.started_at
            /\ r.updated_at = s.updated_at
            /\ DOMAIN r = DOMAIN s

\* a state with microseconds and an aware timestamp converted through a dict
\* that carries unknown keys
C19_Witness ==
    /\ run.graph = "round_trip"
    /\ "checkpoint_id" \in DOMAIN out /\ "tenant" \in DOMAIN out.context
    /\ req.started_at.microsecond # 0
    /\ req.updated_at.utcoffset # None

\* ------------------------------------------- planner runs over a history
\* Missions that were created, and indexed when the bundle has a semantic
\* memory, before the runs that are observed: four of u1 and one of u2, the
\* last of each completed.  Their ids lie above the ids new_id() hands out.
ArchiveBase == MaxId + 10

ArchiveShapes ==
    << [user_id |-> "u1", status |-> M_ACTIVE, words |-> {"alpha", "beta"}],
       [user_id |-> "u1", status |-> M_PAUSED, words |-> {"alpha"}],
       [user_id |-> "u1", status |-> M_ACTIVE, words |-> {"beta"}],
       [user_id |-> "u1", status |-> M_COMPLETED, words |-> {"alpha"}],
       [user_id |-> "u2", status |-> M_COMPLETED, words |-> {"gamma"}] >>

ArchiveMission(k) ==
    Mission(ArchiveBase + k, ArchiveShapes[k].user_id, ArchiveShapes[k].status,
            0, None, {}, <<>>)

ArchiveMissions ==
    [id \in {ArchiveBase + k : k \in DOMAIN ArchiveShapes} |->
        ArchiveMission(id - ArchiveBase)]

ArchiveSemantic ==
    [present |-> TRUE,
     missions |-> [id \in DOMAIN ArchiveMissions |->
                     [id |-> id, mission |-> ArchiveMissions[id],
                      words |-> ArchiveShapes[id - ArchiveBase].words]]]

InitHistory ==
    /\ \/ missions = <<>> /\ semantic \in {NoSemantic, EmptySemantic}
       \/ missions = ArchiveMissions /\ semantic \in {NoSemantic, ArchiveSemantic}
    /\ blocks = <<>> /\ episodes = <<>> /\ profiles = <<>>
    /\ nextId = 1 /\ now = 0 /\ today = 0
    /\ run = Idle /\ req = <<>> /\ out = <<>> /\ resp = NoResp /\ pre = <<>>
    /\ tasks = [t \in Tasks |-> NoTask]
    /\ sessions = <<>> /\ chats = [c \in Chats |-> NoChat]

\* requests whose text shares one word, two words or no word with the
\* archive, an empty text, and an infinite estimate
HistoryRequests ==
    { [raw_input |-> ws, estimated_hours |-> None, days_off |-> {},
       preferred_block_lengths |-> <<>>] : ws \in {{"alpha"}, {"alpha", "beta"},
                                                   {"gamma"}, {}} }
    \cup { [raw_input |-> {"alpha"}, estimated_hours |-> Inf, days_off |-> {},
            preferred_block_lengths |-> <<>>] }

\* InMemorySemanticMemory.add_mission called by the application with the
\* mission as it is stored now
ReindexMission(mission_id) ==
    /\ RunIdle
    /\ semantic.present
    /\ mission_id \in DOMAIN missions /\ mission_id \in DOMAIN semantic.missions
    /\ semantic' = add_mission(semantic, missions[mission_id],
                               semantic.missions[mission_id].words)
    /\ UNCHANGED <<missions, blocks, episodes, profiles, nextId, now, today, run, req,
                   out, resp, pre, tasks, sessions, chats>>

\* the missions of this behaviour are completed and indexed again; the
\* archive stays as it is
NextHistory ==
    \/ \E u \in Users, rq \in HistoryRequests : PlannerRun(u, rq)
    \/ \E u \in Users : CreateMission(u)
    \/ \E m \in DOMAIN missions \ DOMAIN ArchiveMissions :
          MissionSetStatus(m, M_COMPLETED)
    \/ \E m \in DOMAIN missions \ DOMAIN ArchiveMissions : ReindexMission(m)
    \/ Finish

SpecHistory == InitHistory /\ [][NextHistory]_vars

\* --------------------------------------------------- planner runs: claims
PlannerDone == run.graph = "planner" /\ run.pc = "done"

\* C21: the mission of every response a planner run returns has a non-empty
\* id that no mission stored before the run has, belongs to the caller, and
\* is the mission the missions repository returns for that id
C21_FreshStoredMission ==
    PlannerDone =>
        /\ resp.mission.id # EmptyId /\ resp.mission.id # None
        /\ resp.mission.id \notin DOMAIN pre.missions
        /\ resp.mission.user_id = run.user_id
        /\ Get(missions, resp.mission.id) = Some(resp.mission)

\* a run returned while the archive and a mission of an earlier run or call
\* were stored
C21_Witness ==
    /\ PlannerDone
    /\ \E id \in DOMAIN pre.missions : id < ArchiveBase
    /\ \E id \in DOMAIN pre.missions : id > ArchiveBase

\* ------------------------------------------------ the episodes repository
\* runs of the three graphs and save_episode calls, over the episodes that
\* earlier runs and calls stored
DefaultPlanRequest ==
    [raw_input |-> {"alpha"}, estimated_hours |-> None, days_off |-> {},
     preferred_block_lengths |-> <<>>]

\* a day reflection, and a week reflection, whose run raises
EpisodeRequests ==
    [kind : {"day", "week"}, mission_id : {None}, block_id : {None},
     start_date : {None}, end_date : {None}, user_reflection : {TRUE},
     focus_score : {None}]

NextEpisodes ==
    \/ \E u \in Users, rq \in EpisodeRequests : ArchivistRun(u, rq)
    \/ SaveEpisodes
    \/ CoachDefaultRuns
    \/ \E u \in Users : PlannerRun(u, DefaultPlanRequest)
    \/ Finish

SpecEpisodes == Init /\ [][NextEpisodes]_vars

\* C22: an episode once persisted is never modified or removed: in every
\* step each stored episode is still returned for its id with the same
\* fields, so the set of stored episodes only grows
C22_EpisodesAppendOnly ==
    [][\A id \in DOMAIN episodes : Get(episodes', id) = Some(episodes[id])]_vars

\* an archivist run has stored its episode beside an episode of the same
\* user that a session stored before it
C22_Witness ==
    /\ run.graph = "archivist" /\ run.pc = "done"
    /\ \E a \in DOMAIN pre.episodes, b \in DOMAIN episodes \ DOMAIN pre.episodes :
          /\ pre.episodes[a].user_id = episodes[b].user_id
          /\ episodes[a] = pre.episodes[a]

\* ------------------------------------------------- profiles: get or create
\* MemoryTools.get_user_profile(user_id): the profile get_or_create returns
GetUserProfile(user_id) ==
    /\ RunIdle
    /\ LET ps == get_or_create(profiles, user_id, now)
       IN  /\ profiles' = ps
           /\ resp' = [kind |-> "profile", profile |-> ps[user_id]]
    /\ run' = [graph |-> "get_user_profile", pc |-> "done", user_id |-> user_id]
    /\ req' = [user_id |-> user_id]
    /\ out' = <<>>
    /\ pre' = Snapshot
    /\ UNCHANGED <<missions, blocks, episodes, nextId, now, today, tasks, sessions,
                   chats, semantic>>

\* archivist runs over stored sessions, chat calls one at a time with and
\* without a session id, and get_user_profile calls, of two users
NextGetOrCreate ==
    \/ \E u \in Users, rq \in EpisodeRequests : ArchivistRun(u, rq)
    \/ SaveEpisodes
    \/ \E u \in Users : GetUserProfile(u)
    \/ \E u \in Users, s \in {None, ClientSessionId} : ChatBegin("c1", u, s)
    \/ ChatCreate("c1")
    \/ ChatSend("c1", TRUE)
    \/ ChatReturn("c1")
    \/ Finish

SpecGetOrCreate == Init /\ [][NextGetOrCreate]_vars

\* the stats of a fresh profile
ZeroStats(profile) ==
    /\ profile.total_missions_created = 0
    /\ profile.total_blocks_completed = 0
    /\ profile.total_focused_minutes = 0

\* no counter of the profile went down
StatsKept(before, after) ==
    /\ after.total_missions_created >= before.total_missions_created
    /\ after.total_blocks_completed >= before.total_blocks_completed
    /\ after.total_focused_minutes >= before.total_focused_minutes

\* the step is a call of get_user_profile
GetUserProfileStep == run.pc = "idle" /\ run'.graph = "get_user_profile"

\* C23: get_or_create returns the stored profile unchanged when there is
\* one and otherwise stores and returns a fresh profile with zeroed stats;
\* in every step of archivist runs, chat calls and get_or_create calls each
\* user whose profile was asked for has exactly one profile, stored under
\* its own user id, and no stored profile is dropped or has its stats reset
C23_GetOrCreate ==
    [][ /\ GetUserProfileStep =>
            LET u == run'.user_id
            IN IF u \in DOMAIN profiles
               THEN profiles' = profiles /\ resp'.profile = profiles[u]
               ELSE /\ DOMAIN profiles' = DOMAIN profiles \cup {u}
                    /\ \A v \in DOMAIN profiles : profiles'[v] = profiles[v]
                    /\ resp'.profile = profiles'[u]
                    /\ resp'.profile.user_id = u
                    /\ ZeroStats(resp'.profile)
        /\ \A u \in DOMAIN profiles :
              u \in DOMAIN profiles' /\ StatsKept(profiles[u], profiles'[u])
        /\ \A u \in DOMAIN profiles' : profiles'[u].user_id = u
        /\ run'.graph \in {"archivist", "get_user_profile"}
              => run'.user_id \in DOMAIN profiles'
        /\ \A c \in Chats : (chats'[c].pc # "idle" /\ chats'[c].absent)
              => chats'[c].user_id \in DOMAIN profiles'
      ]_vars

\* get_user_profile returned the profile of a user whose stats an archivist
\* run had raised
C23_Witness ==
    /\ run.graph = "get_user_profile"
    /\ run.user_id \in DOMAIN pre.profiles
    /\ pre.profiles[run.user_id].total_blocks_completed > 0
    /\ resp.profile = pre.profiles[run.user_id]

\* ------------------------------------------------- Episode: the two scores
\* Field(None, ge=1, le=5) on focus_score and on energy_score
ScoreMin == 1
ScoreMax == 5

\* the scores a caller passes: absent, or an integer in or around the range
Scores == {None} \cup (ScoreMin - 1)..(ScoreMax + 2)

valid_score(score) == score = None \/ (score >= ScoreMin /\ score <= ScoreMax)

\* a score brought into the range instead of being rejected
clamp_score(score) ==
    IF score = None THEN None
    ELSE IF score < ScoreMin THEN ScoreMin
    ELSE IF score > ScoreMax THEN ScoreMax
    ELSE score

\* the validation that clamps: it never fails
episode_scores_clamped(focus_score, energy_score) ==
    Some([focus_score |-> clamp_score(focus_score),
          energy_score |-> clamp_score(energy_score)])

\* the validated scores of Episode(...), or <<>> for the ValidationError
episode_scores(focus_score, energy_score) ==
    IF valid_score(focus_score) /\ valid_score(energy_score)
    THEN Some([focus_score |-> focus_score, energy_score |-> energy_score])
    ELSE Nothing

\* Episode(id=..., user_id=..., kind=..., created_at=..., summary=...,
\* focus_score=..., energy_score=...)
NewEpisode(user_id, kind, focus_score, energy_score) ==
    /\ RunIdle
    /\ LET scores == episode_scores(focus_score, energy_score)
       IN  /\ run' = [graph |-> "Episode",
                      pc |-> IF IsSome(scores) THEN "done" ELSE "raised",
                      user_id |-> user_id]
           /\ resp' = IF IsSome(scores)
                      THEN [kind |-> "episode",
                            episode |-> [user_id |-> user_id, kind |-> kind,
                                         focus_score |-> scores[1].focus_score,
                                         energy_score |-> scores[1].energy_score]]
                      ELSE [kind |-> "raised", error |-> "ValidationError"]
    /\ req' = [kind |-> kind, focus_score |-> focus_score,
               energy_score |-> energy_score]
    /\ out' = <<>>
    /\ pre' = Snapshot
    /\ UNCHANGED <<missions, blocks, episodes, profiles, nextId, now, today, tasks,
                   sessions, chats, semantic>>

NextNewEpisode ==
    \/ \E u \in Users, k \in EpisodeKind, f \in Scores, e \in Scores :
          NewEpisode(u, k, f, e)
    \/ Finish

SpecNewEpisode == Init /\ [][NextNewEpisode]_vars

\* C24: constructing an Episode succeeds, keeping the scores, when
\* focus_score and energy_score are each absent or an integer from 1 to 5,
\* and fails with a validation error when either is 0 or 6
C24_ScoreBounds ==
    run.graph = "Episode" =>
        LET in_range(x) == x = None \/ x \in 1..5
        IN  /\ (in_range(req.focus_score) /\ in_range(req.energy_score)) =>
                  /\ run.pc = "done"
                  /\ resp.episode.focus_score = req.focus_score
                  /\ resp.episode.energy_score = req.energy_score
            /\ (req.focus_score \in {0, 6} \/ req.energy_score \in {0, 6}) =>
                  run.pc = "raised" /\ resp.error = "ValidationError"

\* focus_score=6 was rejected although energy_score=5 is in range
C24_Witness ==
    /\ run.graph = "Episode" /\ run.pc = "raised"
    /\ req.focus_score = 6 /\ req.energy_score = 5

\* ------------------------------------------------ planner history: claims
PlannerEndedRun == run.graph = "planner" /\ run.pc \in {"done", "raised"}

\* C25: in a planner run the similarity search runs before the mission is
\* created, so the missions it returns were there before the run and none is
\* the run's own; at most 3 missions of this user are returned and
\* similar_missions_note is non-null exactly when one of them has status
\* completed; with no semantic backend the result is empty, the note is null
\* and the search does not fail the run
C25_HistoryNote ==
    PlannerEndedRun =>
        LET similar == out.similar_missions
        IN  /\ Len(similar) <= 3
            /\ \A i \in DOMAIN similar :
                  /\ similar[i].user_id = run.user_id
                  /\ similar[i].id \in DOMAIN pre.missions
                  /\ run.pc = "done" => similar[i].id # resp.mission.id
            /\ run.pc = "done" =>
                  (IsSome(resp.similar_missions_note)
                     <=> \E i \in DOMAIN similar : similar[i].status = M_COMPLETED)
            /\ ~semantic.present =>
                  /\ similar = <<>>
                  /\ out.history_note = Nothing
                  /\ run.pc = "done" => resp.similar_missions_note = Nothing
                  /\ run.pc = "raised" =>
                        resp.error = "OverflowError" /\ req.estimated_hours = Inf

\* a run of u1 that was handed three similar missions, one of them
\* completed, out of four that share a word with the request
C25_Witness ==
    /\ PlannerEndedRun /\ run.pc = "done"
    /\ Len(out.similar_missions) = 3
    /\ IsSome(resp.similar_missions_note)
    /\ req.raw_input = {"alpha"}
    /\ resp.mission.id \in DOMAIN semantic.missions

\* a run without a semantic backend returned with an empty result
C25_NoBackendReturned ==
    /\ PlannerEndedRun /\ run.pc = "done" /\ ~semantic.present
    /\ pre.missions # <<>>

\* ------------------------------------------------- coach runs: the start
\* coach runs with the default available_minutes, naming no or a stored
\* mission and no, a stored or an unknown block, over missions that are
\* created and blocks that are created for today and completed
CoachStartRuns ==
    \E u \in Users, m \in {None} \cup DOMAIN missions, b \in IdChoices(blocks) :
        CoachRun(u, m, b, None)

NextStart ==
    \/ CoachStartRuns
    \/ \E u \in Users, m \in DOMAIN missions \cup {UnknownId} : CreateBlock(u, m, combine(today, NineOClock))
    \/ \E b \in DOMAIN blocks : TimelineCall("complete_block", b)
    \/ \E u \in Users : CreateMission(u)
    \/ Finish

SpecStart == Init /\ [][NextStart]_vars

\* the run selected a block, and the block is in the repository
SelectedStored ==
    /\ CoachDone
    /\ IsSome(out.selected_block)
    /\ out.selected_block[1].id \in DOMAIN blocks

\* C26: when a coach run selects a block that exists in the repository, at
\* the end of the run the block is stored in_progress with an actual_start
\* and the response block is in_progress; if the block was in_progress
\* already, the run writes no update and the actual_start is the old one
C26_SelectedBlockStarted ==
    SelectedStored =>
        LET id == out.selected_block[1].id
        IN  /\ resp.block.id = id
            /\ blocks[id].status = IN_PROGRESS
            /\ blocks[id].actual_start # None
            /\ resp.block.status = IN_PROGRESS
            /\ (id \in DOMAIN pre.blocks /\ pre.blocks[id].status = IN_PROGRESS) =>
                  /\ blocks = pre.blocks
                  /\ blocks[id].actual_start = pre.blocks[id].actual_start
            /\ \A other \in DOMAIN pre.blocks \ {id} : blocks[other] = pre.blocks[other]

\* a run continued a block that was in progress while another block of the
\* same user was planned
C26_Witness ==
    /\ SelectedStored
    /\ out.is_continuation
    /\ pre.blocks[out.selected_block[1].id].status = IN_PROGRESS
    /\ \E other \in DOMAIN blocks :
          blocks[other].user_id = run.user_id /\ blocks[other].status = PLANNED

\* a run started a completed block that the request named
C26_RestartReached ==
    /\ SelectedStored
    /\ out.selected_block[1].id \in DOMAIN pre.blocks
    /\ pre.blocks[out.selected_block[1].id].status = COMPLETED

\* ------------------------------------------ coach runs: no block selected
\* coach runs on RunSessionRequest(), node by node, over missions and blocks
\* that are created between the runs
NextCoachSteps ==
    \/ \E u \in Users :
          GraphStart("coach", u, [mission_id |-> None, block_id |-> None,
                                  available_minutes |-> None])
    \/ GraphStep
    \/ \E u \in Users : CreateMission(u)
    \/ \E u \in Users, d \in {None, combine(today, NineOClock)} : CreateBlock(u, UnknownId, d)
    \/ Finish

SpecCoachSteps == Init /\ [][NextCoachSteps]_vars

\* the coach run ended without a selected block
NoBlockSelected ==
    StepsEnded /\ run.graph = "coach" /\ ~IsSome(out.selected_block)

\* C27: when a coach run selects no block, the remaining steps still run
\* and the run writes nothing to any repository; the response has the
\* generic brief asking what to work on, no actions and recommended
\* duration 25
C27_NoBlockNoWrite ==
    NoBlockSelected =>
        /\ run.pc = "done"
        /\ run.steps = <<"load_context", "decide_block", "generate_brief",
                         "start_session">>
        /\ Snapshot = pre
        /\ resp.brief = "what would you like to work on"
        /\ resp.actions = <<>>
        /\ resp.recommended_duration_minutes = 25

\* such a run of a user who has a planned block that is not scheduled
C27_Witness ==
    /\ NoBlockSelected
    /\ \E b \in DOMAIN pre.blocks :
          pre.blocks[b].user_id = run.user_id /\ pre.blocks[b].status = PLANNED

\* ------------------------------------------- C28: get_next_planned_block
\* a mission whose planned blocks outnumber the default limit of
\* list_for_mission: create_block was called BlockLimit + 1 times for it, the
\* first BlockLimit blocks scheduled tomorrow at nine and the last one today
BacklogMission == UnknownId + 1
BacklogBase == MaxId + 200
BacklogSize == BlockLimit + 1
BacklogBlock(k) == Block(BacklogBase + k, "u1", BacklogMission, k - 1, IF k < BacklogSize THEN combine(1, NineOClock) ELSE combine(0, NineOClock), DefaultDuration)
Backlog == [id \in {BacklogBase + k : k \in 1..BacklogSize} |-> BacklogBlock(id - BacklogBase)]

\* the block store is empty with the id counter at 1, or holds the backlog
InitNextPlanned ==
    /\ missions = <<>> /\ episodes = <<>> /\ profiles = <<>>
    /\ \/ blocks = <<>> /\ nextId = 1
       \/ blocks = Backlog /\ nextId = MaxId + 1
    /\ now = 0 /\ today = 0
    /\ run = Idle /\ req = <<>> /\ out = <<>> /\ resp = NoResp /\ pre = <<>>
    /\ tasks = [t \in Tasks |-> NoTask]
    /\ sessions = <<>> /\ chats = [c \in Chats |-> NoChat]
    /\ semantic = NoSemantic

\* TimelineTools.get_next_planned_block called directly
GetNextPlannedBlock(user_id, mission_id) ==
    /\ RunIdle
    /\ resp' = [kind |-> "block", block |-> get_next_planned_block(blocks, user_id, mission_id)]
    /\ run' = [graph |-> "get_next_planned_block", pc |-> "done", user_id |-> user_id]
    /\ req' = [user_id |-> user_id, mission_id |-> mission_id]
    /\ out' = <<>>
    /\ pre' = Snapshot
    /\ UNCHANGED <<missions, blocks, episodes, profiles, nextId, now, today, tasks,
                   sessions, chats, semantic>>

\* the start times a caller of create_block passes: none, today at nine,
\* today at two, tomorrow at nine
StartTimes == {None, combine(today, NineOClock), combine(today, 14), combine(today + 1, NineOClock)}

\* blocks of two users are created for one mission with and without a start
\* time, started and completed, and the next planned block is asked for with
\* no mission id, an empty one, and the id of each mission that has blocks
NextNextPlanned ==
    \/ \E u \in Users, d \in StartTimes : CreateBlock(u, UnknownId, d)
    \/ \E b \in DOMAIN blocks \ DOMAIN Backlog, tool \in {"start_block", "complete_block"} : TimelineCall(tool, b)
    \/ \E u \in Users, m \in {None, EmptyId, UnknownId, BacklogMission} : GetNextPlannedBlock(u, m)
    \/ Finish

SpecNextPlanned == InitNextPlanned /\ [][NextNextPlanned]_vars

\* the planned blocks the call is to choose from: the given mission's, or
\* the user's blocks scheduled today
PlannedScope(bs, user_id, mission_id) ==
    {b \in {bs[i] : i \in DOMAIN bs} :
        /\ b.status = PLANNED
        /\ IF IsGiven(mission_id) THEN b.mission_id = mission_id
           ELSE /\ b.user_id = user_id
                /\ b.scheduled_start # None
                /\ date(b.scheduled_start) = today}

\* the block is the stated choice from the scope
NextOf(scope, b) ==
    /\ b \in scope
    /\ IF \E c \in scope : c.scheduled_start # None
       THEN /\ b.scheduled_start # None
            /\ \A c \in scope : c.scheduled_start # None => b.scheduled_start <= c.scheduled_start
       ELSE \A c \in scope : b.sequence_index <= c.sequence_index

NextPlannedReturned == run.graph = "get_next_planned_block" /\ run.pc = "done"

\* C28: get_next_planned_block returns a planned block of its scope (the given
\* mission's blocks, or with no mission id the user's blocks scheduled today):
\* the earliest scheduled_start among the scheduled ones, the first by
\* sequence when none is scheduled, and none exactly when the scope holds no
\* planned block
C28_NextPlanned ==
    NextPlannedReturned =>
        LET scope == PlannedScope(pre.blocks, req.user_id, req.mission_id)
        IN  /\ resp.block = Nothing <=> scope = {}
            /\ resp.block # Nothing => NextOf(scope, resp.block[1])

\* the same for a scope of at most BlockLimit planned blocks
C28_NextPlannedWithinLimit ==
    (NextPlannedReturned /\ Cardinality(PlannedScope(pre.blocks, req.user_id, req.mission_id)) <= BlockLimit)
        => C28_NextPlanned

\* a mission scope whose earliest scheduled planned block is not its first by
\* sequence, and the call returned it
C28_Witness ==
    /\ NextPlannedReturned
    /\ IsGiven(req.mission_id)
    /\ resp.block # Nothing
    /\ \E c \in PlannedScope(pre.blocks, req.user_id, req.mission_id) :
          /\ c.sequence_index < resp.block[1].sequence_index
          /\ c.scheduled_start # None
          /\ c.scheduled_start > resp.block[1].scheduled_start

\* a today scope of two planned blocks, and the call returned the earlier one
C28_TodayReached ==
    /\ NextPlannedReturned
    /\ ~IsGiven(req.mission_id)
    /\ resp.block # Nothing
    /\ \E c \in PlannedScope(pre.blocks, req.user_id, req.mission_id) :
          c.scheduled_start > resp.block[1].scheduled_start

\* ------------------------------------------- C29: the archivist's period
\* today is the day after the longest lookback, so that day 0 lies before
\* every default range
PeriodToday == lookback("mission") + 1
PeriodDays == <<PeriodToday, PeriodToday - 6, PeriodToday - 7, PeriodToday - 8, 1, 0, PeriodToday, PeriodToday - 7>>

\* stored session episodes of earlier days: six of u1 (today, 6, 7, 8, 30 and
\* 31 days ago) and two of u2 (today and 7 days ago)
PeriodEpisode(k) == Episode(ArchiveBase + k, IF k <= 6 THEN "u1" ELSE "u2", "session", PeriodDays[k] - 100, PeriodDays[k], 4, 25, None, {})
PeriodEpisodes == [id \in {ArchiveBase + k : k \in 1..Len(PeriodDays)} |-> PeriodEpisode(id - ArchiveBase)]

\* one more than EpisodeLimit session episodes that u1 saved today
BusyDayEpisode(k) == Episode(ArchiveBase + k, "u1", "session", k - 100, PeriodToday, 4, 25, None, {})
BusyDayEpisodes == [id \in {ArchiveBase + k : k \in 1..(EpisodeLimit + 1)} |-> BusyDayEpisode(id - ArchiveBase)]

\* the store holds the episodes of earlier days, or those of the busy day
\* with no id left for a further episode
InitPeriod ==
    /\ \/ episodes = PeriodEpisodes /\ nextId = 1
       \/ episodes = BusyDayEpisodes /\ nextId = MaxId + 1
    /\ now = 0
    /\ missions = <<>> /\ blocks = <<>> /\ profiles = <<>>
    /\ today = PeriodToday
    /\ run = Idle /\ req = <<>> /\ out = <<>> /\ resp = NoResp /\ pre = <<>>
    /\ tasks = [t \in Tasks |-> NoTask]
    /\ sessions = <<>> /\ chats = [c \in Chats |-> NoChat]
    /\ semantic = NoSemantic

\* every period kind, with and without a start date and an end date
PeriodRequests ==
    [kind : {"block", "day", "week", "mission"}, mission_id : {None}, block_id : {None},
     start_date : {None, PeriodToday - 7}, end_date : {None, PeriodToday - 7}, user_reflection : {TRUE},
     focus_score : {None}]

NextPeriod ==
    \/ \E u \in Users, rq \in PeriodRequests : ArchivistRun(u, rq)
    \/ Finish

SpecPeriod == InitPeriod /\ [][NextPeriod]_vars

\* the run's load_period_data step has run (no step before write_episode raises)
PeriodLoaded == run.graph = "archivist" /\ run.pc \in {"done", "raised"}

DefaultStart(kind) ==
    CASE kind \in {"block", "day"} -> today
      [] kind = "week" -> today - 7
      [] kind = "mission" -> today - 30

\* the ids of the episodes of the user that were stored when the run began
\* and were created from first to last, both included
CreatedWithin(user_id, first, last) ==
    {id \in DOMAIN pre.episodes : /\ pre.episodes[id].user_id = user_id
                                  /\ pre.episodes[id].created_day \in first..last}

LoadedIds == {out.period_episodes[i].id : i \in DOMAIN out.period_episodes}

PeriodRangeAsStated ==
    /\ out.period.end_date = (IF req.end_date # None THEN req.end_date ELSE today)
    /\ out.period.start_date = (IF req.start_date # None THEN req.start_date ELSE DefaultStart(req.kind))

LoadedAsStated ==
    LoadedIds = CreatedWithin(run.user_id, out.period.start_date, out.period.end_date)

DefaultWeek == req.kind = "week" /\ req.start_date = None /\ req.end_date = None

\* C29: the period ends today and starts today (block, day), 7 days before
\* (week) or 30 days before (mission) unless the request's start_date or
\* end_date replaces the default; the loaded episodes are exactly the user's
\* episodes created in the inclusive range; a week reflection covers the
\* trailing 7 days, today and the 6 days before it
C29_PeriodRange ==
    PeriodLoaded =>
        /\ PeriodRangeAsStated
        /\ LoadedAsStated
        /\ DefaultWeek => LoadedIds = CreatedWithin(run.user_id, today - 6, today)

\* the range itself is as stated in every run
C29_RangeDefaults == PeriodLoaded => PeriodRangeAsStated

\* a range that holds at most EpisodeLimit episodes of the user is loaded whole
C29_LoadedWithinLimit ==
    (PeriodLoaded /\ Cardinality(CreatedWithin(run.user_id, out.period.start_date, out.period.end_date)) <= EpisodeLimit)
        => LoadedAsStated

\* a week reflection loads the episodes of 8 days, today and the 7 before it
C29_WeekEightDays ==
    (PeriodLoaded /\ DefaultWeek /\ Cardinality(CreatedWithin(run.user_id, today - 7, today)) <= EpisodeLimit)
        => LoadedIds = CreatedWithin(run.user_id, today - 7, today)

\* a week reflection that loaded an episode created 7 days before today
C29_EighthDayLoaded ==
    /\ PeriodLoaded /\ DefaultWeek
    /\ \E id \in LoadedIds : pre.episodes[id].created_day = today - 7

\* a run whose range holds more than EpisodeLimit episodes of the user
C29_OverLimitLoaded ==
    /\ PeriodLoaded
    /\ Cardinality(CreatedWithin(run.user_id, out.period.start_date, out.period.end_date)) > EpisodeLimit
    /\ ~LoadedAsStated

\* ------------------------------------------- C30: GlyphState's primitives
\* a text is kept as the list of its characters
Whitespace == {" ", "\n"}

\* str.strip(): the text without its leading and trailing whitespace
strip(text) ==
    LET kept == {i \in 1..Len(text) : text[i] \notin Whitespace}
    IN IF kept = {} THEN <<>>
       ELSE SubSeq(text, Min(kept), CHOOSE i \in kept : \A j \in kept : j <= i)

\* datetime.now() when the clock reads t: a naive datetime
datetime_now(t) == [t |-> t, microsecond |-> 0, utcoffset |-> None]

\* create_initial_state(user_id, mode, initial_message=...): started_at is
\* read from the clock at t and updated_at after it, at u
create_initial_state(user_id, mode, initial_message, t, u) ==
    GlyphState(GlyphContext(user_id, None, None, None, "api", Nothing, "UTC", None, <<>>),
               mode,
               IF IsSome(initial_message) THEN <<[role |-> "user", content |-> initial_message[1]]>> ELSE <<>>,
               <<>>, <<>>, <<>>, datetime_now(t), datetime_now(u))

add_output(state, key, value, t) ==
    [state EXCEPT !.outputs = [k \in DOMAIN @ \cup {key} |-> IF k = key THEN value ELSE @[k]],
                  !.updated_at = datetime_now(t)]

\* add_error that puts the error in front of the list
add_error_first(state, error, t) ==
    [state EXCEPT !.errors = <<error>> \o @, !.updated_at = datetime_now(t)]

add_error(state, error, t) ==
    [state EXCEPT !.errors = Append(@, error), !.updated_at = datetime_now(t)]

append_scratchpad(state, text, t) ==
    [state EXCEPT !.scratchpad = strip(@ \o <<"\n">> \o text),
                  !.updated_at = datetime_now(t)]

GlyphCall(call, state, t) ==
    CASE call.op = "add_output" -> add_output(state, call.key, call.value, t)
      [] call.op = "add_error" -> add_error(state, call.error, t)
      [] call.op = "append_scratchpad" -> append_scratchpad(state, call.text, t)

\* the calls made on one state: at most one per clock value
CallBound == MaxClock

\* a key set and set again with another value and a second key; two errors;
\* a plain text, a text wrapped in whitespace and a blank one
GlyphCalls ==
    {[op |-> "add_output", key |-> "k1", value |-> 1],
     [op |-> "add_output", key |-> "k1", value |-> 2],
     [op |-> "add_output", key |-> "k2", value |-> 1],
     [op |-> "add_error", error |-> "e1"],
     [op |-> "add_error", error |-> "e2"],
     [op |-> "append_scratchpad", text |-> <<"a">>],
     [op |-> "append_scratchpad", text |-> <<" ", "b", "\n">>],
     [op |-> "append_scratchpad", text |-> <<" ">>]}

GlyphLive == run.graph = "glyph_state" /\ run.pc = "live"

\* a state is created: out is the state, resp keeps it as it was created and
\* req lists the calls made on it
NewState(user_id, mode, initial_message) ==
    /\ RunIdle
    /\ \E u \in {now, now + 1} :
          /\ u <= MaxClock
          /\ out' = create_initial_state(user_id, mode, initial_message, now, u)
          /\ now' = u
    /\ resp' = [kind |-> "state", state |-> out']
    /\ req' = <<>>
    /\ run' = [graph |-> "glyph_state", pc |-> "live", user_id |-> user_id]
    /\ pre' = Snapshot
    /\ UNCHANGED <<missions, blocks, episodes, profiles, nextId, today, tasks,
                   sessions, chats, semantic>>

\* one of the three primitives is called on the state
CallState(call) ==
    /\ GlyphLive
    /\ Len(req) < CallBound
    /\ out' = GlyphCall(call, out, now)
    /\ req' = Append(req, call)
    /\ UNCHANGED <<missions, blocks, episodes, profiles, nextId, now, today, run, resp,
                   pre, tasks, sessions, chats, semantic>>

\* the clock advances while the state lives
ClockTick ==
    /\ GlyphLive
    /\ now < MaxClock
    /\ now' = now + 1
    /\ UNCHANGED <<missions, blocks, episodes, profiles, nextId, today, run, req, out,
                   resp, pre, tasks, sessions, chats, semantic>>

\* the state is dropped
DropState ==
    /\ GlyphLive
    /\ run' = Idle /\ req' = <<>> /\ out' = <<>> /\ resp' = NoResp /\ pre' = <<>>
    /\ UNCHANGED <<missions, blocks, episodes, profiles, nextId, now, today, tasks,
                   sessions, chats, semantic>>

NextGlyphState ==
    \/ \E m \in {"CHAT", "COACH"}, msg \in {Nothing, Some("hi")} : NewState("u1", m, msg)
    \/ \E call \in GlyphCalls : CallState(call)
    \/ ClockTick
    \/ DropState

SpecGlyphState == Init /\ [][NextGlyphState]_vars

IsPrefix(s, t) == Len(s) <= Len(t) /\ SubSeq(t, 1, Len(s)) = s

NotEarlier(a, b) == a.t > b.t \/ (a.t = b.t /\ a.microsecond >= b.microsecond)

\* the fields of a GlyphState but for those named
SameBut(s, t, fields) == \A f \in DOMAIN s \ fields : t[f] = s[f]

AddedErrors(calls) ==
    LET es == SelectSeq(calls, LAMBDA c : c.op = "add_error")
    IN [i \in 1..Len(es) |-> es[i].error]

\* what one call may change
CallFrame(call, s, t) ==
    CASE call.op = "add_output" ->
            /\ SameBut(s, t, {"outputs", "updated_at"})
            /\ DOMAIN t.outputs = DOMAIN s.outputs \cup {call.key}
            /\ t.outputs[call.key] = call.value
            /\ \A k \in DOMAIN s.outputs \ {call.key} : t.outputs[k] = s.outputs[k]
      [] call.op = "add_error" ->
            /\ SameBut(s, t, {"errors", "updated_at"})
            /\ t.errors = s.errors \o <<call.error>>
      [] call.op = "append_scratchpad" ->
            /\ SameBut(s, t, {"scratchpad", "updated_at"})
            /\ IsPrefix(s.scratchpad, t.scratchpad)

\* what holds of the state after the calls listed
AfterCalls(created, calls, s) ==
    /\ s.errors = created.errors \o AddedErrors(calls)
    /\ NotEarlier(s.updated_at, s.started_at)
    /\ s.context = created.context /\ s.mode = created.mode
    /\ s.messages = created.messages /\ s.started_at = created.started_at

\* C30: add_output changes only outputs[k] and updated_at, add_error only
\* appends to errors and sets updated_at, append_scratchpad only extends
\* scratchpad and sets updated_at (to the clock's reading); after any sequence
\* of calls errors holds the added errors in call order, updated_at is not
\* earlier than started_at, and context, mode, messages and started_at are as
\* created
C30_Primitives ==
    [][(GlyphLive /\ Len(req') = Len(req) + 1) =>
          /\ CallFrame(req'[Len(req')], out, out')
          /\ out'.updated_at = datetime_now(now)
          /\ AfterCalls(resp.state, req', out')]_vars

\* two errors added in the order e2, e1 after k1 was set, on a state created
\* with a message, at a later clock value than its creation
C30_Witness ==
    /\ GlyphLive
    /\ out.errors = <<"e2", "e1">>
    /\ "k1" \in DOMAIN out.outputs
    /\ out.messages # <<>>
    /\ out.updated_at.t > out.started_at.t

\* a blank text was appended to a scratchpad that holds text, and a text
\* wrapped in whitespace to an empty one
C30_StripReached ==
    /\ GlyphLive
    /\ Len(req) = 2
    /\ req[1].op = "append_scratchpad" /\ req[1].text = <<" ", "b", "\n">>
    /\ req[2].op = "append_scratchpad" /\ req[2].text = <<" ">>
    /\ out.scratchpad = <<"b">>

\* ------------------------------------------- C31: a run that follows a run
\* the coach run in place selected a stored block and started it
StartedByRun ==
    /\ run.graph = "coach" /\ run.pc = "done"
    /\ IsSome(out.selected_block)
    /\ LET id == out.selected_block[1].id
       IN  /\ id \in DOMAIN blocks
           /\ id \in DOMAIN pre.blocks => pre.blocks[id].status # IN_PROGRESS

\* run_session for the same user with no block_id, called right after a run
\* that started a block returned; resp keeps the block the first run started
CoachFollowUp(mission_id) ==
    /\ StartedByRun
    /\ LET rq == [mission_id |-> mission_id, block_id |-> None, available_minutes |-> None]
           w == coach_graph(World(coach_initial_state), run.user_id, rq)
       IN /\ w.nextId <= MaxId + 1 /\ w.now <= MaxClock
          /\ blocks' = w.blocks /\ nextId' = w.nextId /\ now' = w.now
          /\ req' = rq /\ out' = w.out
          /\ resp' = [kind |-> "follow_up", first |-> out.selected_block[1], second |-> coach_response(w, run.user_id)]
    /\ run' = [graph |-> "coach_follow_up", pc |-> "done", user_id |-> run.user_id]
    /\ pre' = Snapshot
    /\ UNCHANGED <<missions, episodes, profiles, today, tasks, sessions, chats, semantic>>

\* missions and blocks of two users are created, blocks are completed, a
\* coach run names no or a stored mission and no, an unknown or a stored
\* block, and a second run may follow it at once
NextFollowUp ==
    \/ CoachStartRuns
    \/ \E m \in {None} \cup DOMAIN missions : CoachFollowUp(m)
    \/ \E u \in Users, m \in DOMAIN missions \cup {UnknownId} : CreateBlock(u, m, combine(today, NineOClock))
    \/ \E b \in DOMAIN blocks : TimelineCall("complete_block", b)
    \/ \E u \in Users : CreateMission(u)
    \/ Finish

SpecFollowUp == Init /\ [][NextFollowUp]_vars

FollowUpDone == run.graph = "coach_follow_up" /\ run.pc = "done"

\* the second run selected the first run's block as a continuation, left
\* the block as stored and created no block
SameBlockContinued ==
    /\ IsSome(out.selected_block)
    /\ out.selected_block[1].id = resp.first.id
    /\ out.is_continuation
    /\ resp.second.block.id = resp.first.id
    /\ blocks[resp.first.id] = pre.blocks[resp.first.id]
    /\ DOMAIN blocks = DOMAIN pre.blocks

\* C31: after a coach run for a user that selected and started block B, a
\* run_session for that user with no block_id that follows it at once
\* selects B as a continuation, leaves every stored field of B unchanged and
\* creates no block
C31_FollowUpContinues == FollowUpDone => SameBlockContinued

\* the same when B is a block of the user the runs are for
C31_FollowUpContinuesOwnBlock ==
    (FollowUpDone /\ resp.first.user_id = run.user_id) => SameBlockContinued

\* a follow-up continued the block although another block of the user was
\* in progress before the first run
C31_OwnBlockReached ==
    /\ FollowUpDone /\ resp.first.user_id = run.user_id
    /\ \E other \in DOMAIN blocks \ {resp.first.id} :
          blocks[other].user_id = run.user_id /\ blocks[other].status = IN_PROGRESS

\* ------------------------------------------- C32: runs and other users
CoachDoneRun == run.graph = "coach" /\ run.pc = "done"

\* the run left the status of every block of another user as it was
OthersStatusKept ==
    \A id \in DOMAIN pre.blocks :
        pre.blocks[id].user_id # run.user_id => blocks[id].status = pre.blocks[id].status

\* the run created no block on a mission of another user
NoBlockOnOthersMission ==
    \A id \in DOMAIN blocks \ DOMAIN pre.blocks :
        blocks[id].mission_id \in DOMAIN missions
            => missions[blocks[id].mission_id].user_id = run.user_id

\* C32: a coach run for user U changes the status of no block whose user_id
\* differs from U and creates no block on a mission whose user_id differs
\* from U, whatever mission_id or block_id the request carries
C32_OwnBlocksOnly == CoachDoneRun => (OthersStatusKept /\ NoBlockOnOthersMission)

\* the same for requests that name no mission and no block, when the user's
\* active mission holds no planned block of another user
C32_OwnBlocksOnlyUnnamed ==
    (/\ CoachDoneRun
     /\ ~IsGiven(req.mission_id) /\ ~IsGiven(req.block_id)
     /\ \A id \in DOMAIN pre.blocks :
           (pre.blocks[id].user_id # run.user_id /\ pre.blocks[id].status = PLANNED)
               => ~(IsSome(out.mission) /\ out.mission[1].id = pre.blocks[id].mission_id))
        => (OthersStatusKept /\ NoBlockOnOthersMission)

\* a run that named another user's mission created a block on it
C32_CreatedOnOthersMission == CoachDoneRun /\ ~NoBlockOnOthersMission

\* a run that named another user's block started it
C32_StartedOthersBlock == CoachDoneRun /\ IsGiven(req.block_id) /\ ~OthersStatusKept

\* a run that named nothing started another user's planned block
C32_UnnamedStartedOthersBlock ==
    CoachDoneRun /\ ~IsGiven(req.mission_id) /\ ~IsGiven(req.block_id) /\ ~OthersStatusKept

\* ------------------------------------------- C33: a reflection repeated
\* session episodes stored before the runs: two of u1, saved today and
\* yesterday, and one of u2 saved today
ReflectEpisodes ==
    LET e1 == Episode(ArchiveBase + 1, "u1", "session", -3, 1, 4, 25, 10, {})
        e2 == Episode(ArchiveBase + 2, "u1", "session", -2, 0, None, 10, None, {})
        e3 == Episode(ArchiveBase + 3, "u2", "session", -1, 1, 2, 5, 5, {})
    IN [id \in {ArchiveBase + 1, ArchiveBase + 2, ArchiveBase + 3} |->
          IF id = ArchiveBase + 1 THEN e1 ELSE IF id = ArchiveBase + 2 THEN e2 ELSE e3]

InitReflectTwice ==
    /\ episodes \in {<<>>, ReflectEpisodes}
    /\ missions = <<>> /\ blocks = <<>> /\ profiles = <<>>
    /\ nextId = 1 /\ now = 0 /\ today = 1
    /\ run = Idle /\ req = <<>> /\ out = <<>> /\ resp = NoResp /\ pre = <<>>
    /\ tasks = [t \in Tasks |-> NoTask]
    /\ sessions = <<>> /\ chats = [c \in Chats |-> NoChat]
    /\ semantic = NoSemantic

\* reflect_period called again with the same user and request, right after
\* a run of kind day returned; resp keeps what the first run reported
ArchivistAgain ==
    /\ run.graph = "archivist" /\ run.pc = "done" /\ req.kind = "day"
    /\ LET w == archivist_graph(World(archivist_initial_state), run.user_id, req)
       IN /\ w.nextId <= MaxId + 1 /\ w.now <= MaxClock
          /\ episodes' = w.episodes /\ profiles' = w.profiles
          /\ nextId' = w.nextId /\ now' = w.now
          /\ out' = w.out
          /\ resp' = [kind |-> "repeated", first |-> resp, second |-> archivist_response(w, run.user_id, req)]
    /\ run' = [graph |-> "archivist_again", pc |-> "done", user_id |-> run.user_id]
    /\ pre' = Snapshot
    /\ UNCHANGED <<missions, blocks, today, req, tasks, sessions, chats, semantic>>

\* reflections of kind day and mission over today, yesterday or the default range
ReflectTwiceRequests ==
    [kind : {"day", "mission"}, mission_id : {None}, block_id : {None},
     start_date : {None, 0}, end_date : {None, 0}, user_reflection : {FALSE},
     focus_score : {None}]

NextReflectTwice ==
    \/ \E u \in Users, rq \in ReflectTwiceRequests : ArchivistRun(u, rq)
    \/ ArchivistAgain
    \/ \E u \in Users : SaveEpisode(u, 4, 25, 10)
    \/ Finish

SpecReflectTwice == InitReflectTwice /\ [][NextReflectTwice]_vars

RepeatedDone == run.graph = "archivist_again" /\ run.pc = "done"

SameStats ==
    /\ resp.second.total_focused_minutes = resp.first.total_focused_minutes
    /\ resp.second.total_leaked_minutes = resp.first.total_leaked_minutes
    /\ resp.second.blocks_completed = resp.first.blocks_completed

\* C33: two consecutive reflect_period runs of kind day for the same user
\* and date range, with no other write in between, report the same
\* total_focused_minutes, total_leaked_minutes and blocks_completed
C33_RepeatedStats == RepeatedDone => SameStats

\* the same when the range ends before today, the day the first run's
\* episode is created on
C33_RepeatedStatsPastRange ==
    (RepeatedDone /\ out.period.end_date < today) => SameStats

\* blocks_completed is the same in both runs over any range
C33_RepeatedBlocksCompleted ==
    RepeatedDone => resp.second.blocks_completed = resp.first.blocks_completed

\* the second run counted the minutes of the first run's episode again
C33_MinutesDoubled ==
    /\ RepeatedDone
    /\ resp.first.total_focused_minutes > 0
    /\ resp.second.total_focused_minutes = 2 * resp.first.total_focused_minutes
    /\ resp.second.total_leaked_minutes = 2 * resp.first.total_leaked_minutes

\* a repeated run over yesterday reported minutes
C33_PastRangeReached ==
    RepeatedDone /\ out.period.end_date < today /\ resp.first.total_focused_minutes > 0

\* ------------------------------------------- C34: the rolling block total
SessionEpisodes(user_id) ==
    {id \in DOMAIN episodes : episodes[id].user_id = user_id /\ episodes[id].kind = "session"}

\* C34: after any sequence of reflect_period runs the profile's
\* total_blocks_completed does not exceed the number of session episodes
\* stored for the user: no session episode is counted more than once
C34_BlocksCountedOnce ==
    \A u \in DOMAIN profiles :
        profiles[u].total_blocks_completed <= Cardinality(SessionEpisodes(u))

ReflectionReturned == run.graph \in {"archivist", "archivist_again"} /\ run.pc = "done"

\* every run that returns adds the number of session episodes of its period,
\* which is at most the number stored, to the total it found
C34_RunAddsPeriodCount ==
    ReflectionReturned =>
        LET before == IF run.user_id \in DOMAIN pre.profiles
                      THEN pre.profiles[run.user_id].total_blocks_completed ELSE 0
        IN  /\ profiles[run.user_id].total_blocks_completed = before + out.stats.blocks_completed
            /\ out.stats.blocks_completed <= Cardinality(SessionEpisodes(run.user_id))

\* two runs over the same day left a total of twice the user's session episodes
C34_CountedTwice ==
    /\ RepeatedDone
    /\ Cardinality(SessionEpisodes(run.user_id)) > 0
    /\ profiles[run.user_id].total_blocks_completed = 2 * Cardinality(SessionEpisodes(run.user_id))

\* ------------------------------------------- C35: update_user_stats calls that interleave
\* a profile that earlier runs have added to
SeasonedProfile == [UserProfile("u1", -1) EXCEPT !.total_blocks_completed = 3, !.total_focused_minutes = 50]

InitStatsRace ==
    /\ profiles \in {<<>>, [u \in {"u1"} |-> SeasonedProfile]}
    /\ missions = <<>> /\ blocks = <<>> /\ episodes = <<>>
    /\ nextId = 1 /\ now = 0 /\ today = 0
    /\ run = Idle /\ req = <<>> /\ out = <<>> /\ resp = NoResp /\ pre = <<>>
    /\ tasks = [t \in Tasks |-> NoTask]
    /\ sessions = <<>> /\ chats = [c \in Chats |-> NoChat]
    /\ semantic = NoSemantic

\* update_user_stats up to the return of get_or_create: the call holds the
\* profile it read; pre keeps the repositories as the first call found them
StatsGet(t, user_id, blocks_completed_delta, focused_minutes_delta) ==
    /\ tasks[t].pc = "idle"
    /\ profiles' = get_or_create(profiles, user_id, now)
    /\ tasks' = [q \in Tasks |->
                   IF q = t
                   THEN [pc |-> "got", tool |-> "update_user_stats", user_id |-> user_id,
                         profile |-> profiles'[user_id],
                         blocks_completed_delta |-> blocks_completed_delta,
                         focused_minutes_delta |-> focused_minutes_delta,
                         overlapped |-> \E o \in Tasks \ {t} : tasks[o].pc = "got"]
                   ELSE IF tasks[q].pc = "got"
                        THEN [tasks[q] EXCEPT !.overlapped = TRUE]
                        ELSE tasks[q]]
    /\ pre' = IF \A q \in Tasks : tasks[q].pc = "idle" THEN Snapshot ELSE pre
    /\ UNCHANGED <<missions, blocks, episodes, nextId, now, today, run, req, out, resp,
                   sessions, chats, semantic>>

\* the rest of update_user_stats: the copy with the new stats is stored
StatsUpdate(t) ==
    /\ tasks[t].pc = "got"
    /\ now < MaxClock
    /\ LET updated == update_user_stats(tasks[t].profile, tasks[t].blocks_completed_delta,
                                        tasks[t].focused_minutes_delta, 0, now)
       IN /\ profiles' = [u \in DOMAIN profiles \cup {updated.user_id} |->
                            IF u = updated.user_id THEN updated ELSE profiles[u]]
          /\ tasks' = [tasks EXCEPT ![t].pc = "done", ![t].profile = updated]
    /\ now' = now + 1
    /\ UNCHANGED <<missions, blocks, episodes, nextId, today, run, req, out, resp, pre,
                   sessions, chats, semantic>>

\* both callers have their results
StatsReturn ==
    /\ \A t \in Tasks : tasks[t].pc = "done"
    /\ tasks' = [t \in Tasks |-> NoTask]
    /\ pre' = <<>>
    /\ UNCHANGED <<missions, blocks, episodes, profiles, nextId, now, today,
                   run, req, out, resp, sessions, chats, semantic>>

\* the deltas of an archivist run over one session of 25 minutes, and over
\* two sessions with no focused time recorded
StatsDeltas == {<<1, 25>>, <<2, 0>>}

NextStatsRace ==
    \/ \E t \in Tasks, u \in Users, d \in StatsDeltas : StatsGet(t, u, d[1], d[2])
    \/ \E t \in Tasks : StatsUpdate(t)
    \/ StatsReturn

SpecStatsRace == InitStatsRace /\ [][NextStatsRace]_vars

\* both calls have finished and were for the same user
BothStatsDone ==
    /\ \A t \in Tasks : tasks[t].pc = "done"
    /\ tasks["t1"].user_id = tasks["t2"].user_id

TotalsBefore(user_id) ==
    IF user_id \in DOMAIN pre.profiles
    THEN <<pre.profiles[user_id].total_blocks_completed, pre.profiles[user_id].total_focused_minutes>>
    ELSE <<0, 0>>

BothDeltasAdded ==
    LET u == tasks["t1"].user_id
    IN  /\ profiles[u].total_blocks_completed = TotalsBefore(u)[1] + tasks["t1"].blocks_completed_delta + tasks["t2"].blocks_completed_delta
        /\ profiles[u].total_focused_minutes = TotalsBefore(u)[2] + tasks["t1"].focused_minutes_delta + tasks["t2"].focused_minutes_delta

\* C35: when two update_user_stats calls for the same user interleave at the
\* repository calls, the profile's final totals are the initial totals plus
\* the deltas of both calls
C35_NoDeltaLost ==
    (BothStatsDone /\ tasks["t1"].overlapped /\ tasks["t2"].overlapped) => BothDeltasAdded

\* two calls for the same user that run one after the other add both deltas
C35_NoDeltaLostInTurn ==
    (BothStatsDone /\ ~tasks["t1"].overlapped /\ ~tasks["t2"].overlapped) => BothDeltasAdded

\* two interleaved calls on a seasoned profile left the totals of one delta
C35_DeltaLost ==
    /\ BothStatsDone /\ tasks["t1"].overlapped /\ tasks["t2"].overlapped
    /\ TotalsBefore(tasks["t1"].user_id)[1] > 0
    /\ ~BothDeltasAdded

\* two calls in turn on a seasoned profile
C35_InTurnReached ==
    /\ BothStatsDone /\ ~tasks["t1"].overlapped /\ ~tasks["t2"].overlapped
    /\ TotalsBefore(tasks["t1"].user_id)[1] > 0

\* ------------------------------------------- C36: the active mission after a plan
\* missions stored before the runs, stamped before the clock's first value:
\* two active ones and a paused one of u1, an active one of u2
EarlierMissions ==
    LET m1 == Mission(ArchiveBase + 1, "u1", M_ACTIVE, -4, None, {}, <<>>)
        m2 == [Mission(ArchiveBase + 2, "u1", M_ACTIVE, -3, None, {}, <<>>) EXCEPT !.updated_at = -1]
        m3 == Mission(ArchiveBase + 3, "u1", M_PAUSED, -2, None, {}, <<>>)
        m4 == Mission(ArchiveBase + 4, "u2", M_ACTIVE, -2, None, {}, <<>>)
    IN [id \in {ArchiveBase + k : k \in 1..4} |->
          IF id = ArchiveBase + 1 THEN m1 ELSE IF id = ArchiveBase + 2 THEN m2
          ELSE IF id = ArchiveBase + 3 THEN m3 ELSE m4]

InitActive ==
    /\ missions \in {<<>>, EarlierMissions}
    /\ blocks = <<>> /\ episodes = <<>> /\ profiles = <<>>
    /\ nextId = 1 /\ now = 0 /\ today = 0
    /\ run = Idle /\ req = <<>> /\ out = <<>> /\ resp = NoResp /\ pre = <<>>
    /\ tasks = [t \in Tasks |-> NoTask]
    /\ sessions = <<>> /\ chats = [c \in Chats |-> NoChat]
    /\ semantic = NoSemantic

\* get_active_mission(user_id) called for the user of the planner run that
\* has just returned; resp keeps the run's mission, pre the run's snapshot
GetActiveAfterPlan ==
    /\ run.graph = "planner" /\ run.pc = "done"
    /\ resp' = [kind |-> "active", created |-> resp.mission,
                active |-> get_active_mission(missions, run.user_id)]
    /\ run' = [graph |-> "get_active_mission", pc |-> "done", user_id |-> run.user_id]
    /\ UNCHANGED <<missions, blocks, episodes, profiles, nextId, now, today, req, out,
                   pre, tasks, sessions, chats, semantic>>

\* planner runs with a finite and an infinite estimate, over missions that
\* are created, paused and resumed
NextActive ==
    \/ \E u \in Users, rq \in {DefaultPlanRequest, [DefaultPlanRequest EXCEPT !.estimated_hours = Inf]} : PlannerRun(u, rq)
    \/ GetActiveAfterPlan
    \/ \E u \in Users : CreateMission(u)
    \/ \E m \in DOMAIN missions \ DOMAIN EarlierMissions, st \in {M_PAUSED, M_ACTIVE} : MissionSetStatus(m, st)
    \/ Finish

SpecActive == InitActive /\ [][NextActive]_vars

ActiveAsked == run.graph = "get_active_mission" /\ run.pc = "done"

\* C36: after a successful planner run for user U, get_active_mission(U)
\* returns the mission the run created, and the run changed no other
\* mission: every mission stored before is stored as it was, so the
\* missions of U that were active are still active
C36_CreatedMissionActive ==
    ActiveAsked =>
        /\ resp.active = Some(resp.created)
        /\ resp.created.id \notin DOMAIN pre.missions
        /\ resp.created.user_id = run.user_id /\ resp.created.status = M_ACTIVE
        /\ \A m \in DOMAIN pre.missions : m \in DOMAIN missions /\ missions[m] = pre.missions[m]

\* the user had an active mission resumed after it was created and two
\* older active missions when the run returned
C36_Witness ==
    /\ ActiveAsked
    /\ \E m \in DOMAIN pre.missions \ DOMAIN EarlierMissions :
          /\ pre.missions[m].user_id = run.user_id /\ pre.missions[m].status = M_ACTIVE
          /\ pre.missions[m].updated_at > pre.missions[m].created_at
    /\ \E m \in DOMAIN pre.missions \cap DOMAIN EarlierMissions :
          pre.missions[m].user_id = run.user_id /\ pre.missions[m].status = M_ACTIVE

\* ------------------------------------------- C37: create_block calls that interleave
\* create_block up to the return of list_for_mission: the call holds the
\* number of blocks it counted
BlockCount(t, user_id, mission_id, scheduled_start) ==
    /\ tasks[t].pc = "idle"
    /\ tasks' = [q \in Tasks |->
                   IF q = t
                   THEN [pc |-> "counted", tool |-> "create_block", user_id |-> user_id,
                         mission_id |-> mission_id, scheduled_start |-> scheduled_start,
                         sequence_index |-> Len(list_for_mission(blocks, mission_id, "any")),
                         overlapped |-> \E o \in Tasks \ {t} : tasks[o].pc = "counted"]
                   ELSE IF tasks[q].pc = "counted"
                        THEN [tasks[q] EXCEPT !.overlapped = TRUE]
                        ELSE tasks[q]]
    /\ UNCHANGED <<missions, blocks, episodes, profiles, nextId, now, today,
                   run, req, out, resp, pre, sessions, chats, semantic>>

\* the rest of create_block: the block is built with a new id and stored
BlockStore(t) ==
    /\ tasks[t].pc = "counted"
    /\ nextId <= MaxId
    /\ blocks' = Put(blocks, Block(nextId, tasks[t].user_id, tasks[t].mission_id,
                                   tasks[t].sequence_index, tasks[t].scheduled_start,
                                   DefaultDuration))
    /\ nextId' = nextId + 1
    /\ tasks' = [tasks EXCEPT ![t].pc = "done"]
    /\ UNCHANGED <<missions, episodes, profiles, now, today, run, req, out, resp, pre,
                   sessions, chats, semantic>>

\* a caller has its block
BlockReturn(t) ==
    /\ tasks[t].pc = "done"
    /\ tasks' = [tasks EXCEPT ![t] = NoTask]
    /\ UNCHANGED <<missions, blocks, episodes, profiles, nextId, now, today,
                   run, req, out, resp, pre, sessions, chats, semantic>>

\* two callers create blocks of two users on two missions
NextBlockRace ==
    \/ \E t \in Tasks, u \in Users, m \in {UnknownId, BacklogMission},
          d \in {None, combine(today, NineOClock)} : BlockCount(t, u, m, d)
    \/ \E t \in Tasks : BlockStore(t)
    \/ \E t \in Tasks : BlockReturn(t)

SpecBlockRace == Init /\ [][NextBlockRace]_vars

BlocksOf(mission_id) == {id \in DOMAIN blocks : blocks[id].mission_id = mission_id}

\* C37: whatever the interleaving of create_block calls on a mission, its
\* stored blocks have pairwise distinct sequence_index values, 0..n-1 for n
\* blocks
C37_DistinctIndexes ==
    \A m \in {blocks[id].mission_id : id \in DOMAIN blocks} :
        /\ \A a, b \in BlocksOf(m) : a # b => blocks[a].sequence_index # blocks[b].sequence_index
        /\ {blocks[id].sequence_index : id \in BlocksOf(m)} = 0..(Cardinality(BlocksOf(m)) - 1)

\* two calls that overlapped stored two blocks of one mission with one index
C37_SameIndexStored ==
    /\ \A t \in Tasks : tasks[t].pc = "done" /\ tasks[t].overlapped
    /\ \E a, b \in DOMAIN blocks :
          /\ a # b /\ blocks[a].mission_id = blocks[b].mission_id
          /\ blocks[a].sequence_index = blocks[b].sequence_index

\* two blocks of one mission were stored by calls in turn
C37_InTurnReached ==
    \E a, b \in DOMAIN blocks : a # b /\ blocks[a].mission_id = blocks[b].mission_id

\* ------------------------------------------- C38: similar missions and the repository
\* C38: every mission find_similar_missions returns carries the status the
\* mission has in the missions repository at the time of the call: a mission
\* created with create_mission and later completed is returned as completed
C38_SimilarStatusCurrent ==
    PlannerEndedRun =>
        \A i \in DOMAIN out.similar_missions :
            LET found == out.similar_missions[i]
            IN found.id \in DOMAIN pre.missions
                  => found.status = pre.missions[found.id].status

\* every mission returned is the mission as it was when it was indexed
C38_SimilarAsIndexed ==
    PlannerEndedRun =>
        \A i \in DOMAIN out.similar_missions :
            LET found == out.similar_missions[i]
            IN /\ found.id \in DOMAIN semantic.missions
               /\ found = semantic.missions[found.id].mission

\* a mission that was completed after create_mission indexed it was returned
\* as active
C38_StaleReturned ==
    /\ PlannerEndedRun
    /\ \E i \in DOMAIN out.similar_missions :
          /\ out.similar_missions[i].status = M_ACTIVE
          /\ pre.missions[out.similar_missions[i].id].status = M_COMPLETED


\* ------------------------------------------------- chat: the session's user
\* the user the workflow tools of a stored session act for
BoundUser(session_id) == sessions[session_id].workflow_tools.user_id

\* a step that leaves the session in the map leaves its tools with their user
BindingKept(session_id) ==
    session_id \in DOMAIN sessions'
        => sessions'[session_id].workflow_tools.user_id = BoundUser(session_id)

\* a chat call that looked the session up before it was stored and has yet
\* to store its own persona
CreatingFor(session_id) ==
    \E c \in Chats : /\ chats[c].pc = "get_or_create"
                     /\ chats[c].session_id = session_id

\* C39: for every chat session id the session's workflow tools stay bound to
\* the user_id of the chat call that created the session: a later chat call
\* with the same session_id and another user_id reuses the stored persona
\* without rebinding it, and the binding goes only when clear_session or
\* clear_all_sessions removes the session
C39_BindingStays ==
    [][\A s \in DOMAIN sessions :
          /\ BindingKept(s)
          /\ s \notin DOMAIN sessions' => NoChatInFlight]_vars

\* the same for the sessions no chat call in flight is still creating: the
\* stored binding changes only when such a call stores its persona
C39_BindingStaysOnceCreated ==
    [][\A s \in DOMAIN sessions :
          /\ ~CreatingFor(s) => BindingKept(s)
          /\ s \notin DOMAIN sessions' => NoChatInFlight]_vars

\* a chat call of another user has been answered by a session's persona
C39_ReusedByOtherUser ==
    \E c \in Chats :
        /\ chats[c].pc = "done" /\ ~chats[c].absent
        /\ chats[c].session_id \in DOMAIN sessions
        /\ chats[c].user_id # BoundUser(chats[c].session_id)

\* a call that created a session for its user finds the session bound to
\* another user while no session was cleared
C39_Rebound ==
    \E c \in Chats :
        /\ chats[c].pc \in {"send_message", "done"} /\ chats[c].absent
        /\ chats[c].session_id \in DOMAIN sessions
        /\ chats[c].user_id # BoundUser(chats[c].session_id)


\* ------------------------------------------------------------------ UITools
\* UIState(): the dataclass defaults
UIState ==
    [focus_mode_active |-> FALSE, timer_running |-> FALSE,
     timer_remaining_seconds |-> Nothing, current_block_id |-> None,
     pending_notifications |-> <<>>]

\* UITools(): a fresh state and the notification counter at 0
UITools == [state |-> UIState, notification_counter |-> 0]

\* focus_mode_on(block_id, duration_minutes): "if duration_minutes:" passes
\* for a duration that is given and not 0
focus_mode_on(self, block_id, duration_minutes) ==
    LET s == [self.state EXCEPT !.focus_mode_active = TRUE,
                                !.current_block_id = block_id]
    IN  [self EXCEPT !.state =
            IF IsSome(duration_minutes) /\ duration_minutes[1] # 0
            THEN [s EXCEPT !.timer_running = TRUE,
                           !.timer_remaining_seconds = Some(duration_minutes[1] * 60)]
            ELSE s]

focus_mode_off(self) ==
    [self EXCEPT !.state.focus_mode_active = FALSE,
                 !.state.timer_running = FALSE,
                 !.state.timer_remaining_seconds = Nothing,
                 !.state.current_block_id = None]

start_timer(self, duration_minutes) ==
    [self EXCEPT !.state.timer_running = TRUE,
                 !.state.timer_remaining_seconds = Some(duration_minutes * 60)]

stop_timer(self) ==
    [self EXCEPT !.state.timer_running = FALSE,
                 !.state.timer_remaining_seconds = Nothing]

\* pause_timer keeps the remaining time
pause_timer(self) == [self EXCEPT !.state.timer_running = FALSE]

\* resume_timer without its test of the remaining time
resume_timer_unguarded(self) == [self EXCEPT !.state.timer_running = TRUE]

\* resume_timer: only a timer with remaining time runs again
resume_timer(self) ==
    IF IsSome(self.state.timer_remaining_seconds)
    THEN [self EXCEPT !.state.timer_running = TRUE]
    ELSE self

\* show_notification: the counter goes up and names the queued notification
show_notification(self, title, notification_type, priority) ==
    LET n == self.notification_counter + 1
    IN  [self EXCEPT !.notification_counter = n,
                     !.state.pending_notifications =
                         Append(@, [id |-> n, title |-> title,
                                    notification_type |-> notification_type,
                                    priority |-> priority])]

\* pop_notifications: the queue is handed over and replaced by an empty one
pop_notifications(self) == [self EXCEPT !.state.pending_notifications = <<>>]

\* the block_id arguments: None, "" and the ids of blocks
UIBlockIds == {None, EmptyId} \cup (1..MaxId)

\* the durations, in minutes, a timer is started with
Durations == {-1, 0, 1, 25}

\* the service has built its UITools
InitUITools ==
    /\ missions = <<>> /\ blocks = <<>> /\ episodes = <<>> /\ profiles = <<>>
    /\ nextId = 1 /\ now = 0 /\ today = 0
    /\ run = Idle /\ req = <<>> /\ out = UITools /\ resp = NoResp /\ pre = <<>>
    /\ tasks = [t \in Tasks |-> NoTask]
    /\ sessions = <<>> /\ chats = [c \in Chats |-> NoChat]
    /\ semantic = NoSemantic

\* one operation of the UITools object has run
UIStep(self) ==
    /\ out' = self
    /\ UNCHANGED <<missions, blocks, episodes, profiles, nextId, now, today, run, req,
                   resp, pre, tasks, sessions, chats, semantic>>

NextUITools ==
    \/ \E b \in UIBlockIds, d \in {Nothing} \cup {Some(m) : m \in Durations} :
          UIStep(focus_mode_on(out, b, d))
    \/ UIStep(focus_mode_off(out))
    \/ \E d \in Durations : UIStep(start_timer(out, d))
    \/ UIStep(stop_timer(out))
    \/ UIStep(pause_timer(out))
    \/ UIStep(resume_timer(out))
    \/ /\ out.notification_counter < MaxId
       /\ \E gentle \in BOOLEAN :
             UIStep(show_notification(out, "Nudge from Glyph", "nudge",
                                      IF gentle THEN "normal" ELSE "high"))
    \/ UIStep(pop_notifications(out))

SpecUITools == InitUITools /\ [][NextUITools]_vars

\* C40: in every state reachable through the UITools operations
\* focus_mode_on, focus_mode_off, start_timer, stop_timer, pause_timer and
\* resume_timer, timer_running implies that timer_remaining_seconds is set,
\* and a set current_block_id implies focus_mode_active
C40_TimerAndFocus ==
    /\ out.state.timer_running => IsSome(out.state.timer_remaining_seconds)
    /\ out.state.current_block_id # None => out.state.focus_mode_active

\* a timer runs in focus mode on a block
C40_Witness ==
    /\ out.state.timer_running /\ IsSome(out.state.timer_remaining_seconds)
    /\ out.state.current_block_id \in 1..MaxId /\ out.state.focus_mode_active

\* a paused timer outside focus mode: time remains and no timer runs
C40_PausedReached ==
    /\ ~out.state.timer_running /\ IsSome(out.state.timer_remaining_seconds)
    /\ ~out.state.focus_mode_active /\ out.state.current_block_id = None

====
